---- MODULE Spec2Model ----
(***************************************************************************)
(* Discrete-time traffic simulation engine (simulation/traffic_simulation. *)
(* py, class TrafficSimulation).                                           *)
(*                                                                         *)
(* Units.  All quantities of the program are floats; the model keeps them  *)
(* as integers in fixed units:                                             *)
(*   position / length : 1 unit = 1/7200 km  (UNITS_PER_KM)                *)
(*   time              : 1 unit = 0.1 s      (TIME_SCALE units per second) *)
(*   speed             : 1 unit = 0.1 km/h   (SPEED_SCALE units per km/h)  *)
(*   ratios            : percent                                           *)
(* With these units every value the engine computes for the parameter sets *)
(* below is an exact integer (a full-speed vehicle covers 100 units in a   *)
(* step of 1 s).  None (turn_position) is 0: the code only tests           *)
(* turn_position for truthiness, and None and 0.0 are both falsy.          *)
(* Arithmetic is exact: rounding of the float sums is not modelled.        *)
(*                                                                         *)
(* traffic_simulation.py imports CAR_TOTAL_SPACE and BUS_TOTAL_SPACE from  *)
(* constants.py, which only defines VEHICLE_TOTAL_SPACE (0.005 km).  The   *)
(* car footprint takes that value; the bus footprint is a larger value.    *)
(***************************************************************************)
EXTENDS Integers, Sequences, FiniteSets, TLC

UNITS_PER_KM == 7200
TIME_SCALE == 10
SPEED_SCALE == 10
EFFICIENCY_SCALE == 100     \* efficiency: 1 unit = 0.01 percent

\* simulation/constants.py
CAR_TOTAL_SPACE == 36                   \* 0.005 km
BUS_TOTAL_SPACE == 90                   \* 0.0125 km, larger than a car's
JAM_THRESHOLD_DISTANCE == 360           \* 0.050 km
DETECTION_DISTANCE == 3600              \* 0.500 km
BASE_VEHICLE_SPEED == 500               \* 50.0 km/h
SLOW_TRAFFIC_THRESHOLD == 100           \* 10.0 km/h
TRAFFIC_LIGHT_STOPPING_DISTANCE == 720  \* 0.1 km
MIN_DENSITY_FACTOR == 10                \* 0.1
DENSITY_REDUCTION_RATE == 15            \* 0.15
SECONDS_PER_HOUR == 3600
DEFAULT_SIDE_ROAD_POSITIONS == <<7200, 18000, 28800>>   \* [1.0, 2.5, 4.0] km

\* Bounds of the exploration
MaxSteps == 5        \* step() calls made directly by a caller
MaxVehicles == 4     \* vehicle ids handed out in one run
MaxArrivals == 2     \* value of one Poisson draw
MaxRunSteps == 11    \* steps of one run_simulation call
MaxJamVehicles == 3  \* active vehicles when the congestion length is evaluated alone
MaxCompleted == 3    \* completed vehicles when the efficiency is evaluated alone
MaxElapsed == 2      \* wall-clock seconds one run_simulation call takes
NpStreamLen == 2     \* period of the stream of Poisson outputs
PyStreamLen == 3     \* period of the stream of outputs of `random`
MaxInterleavedSteps == 2 \* step() calls on each of two instances in one process
MaxSpeedVehicles == 3 \* active vehicles when the speed rule is evaluated alone
MaxMovedVehicles == 2 \* active vehicles when a motion update is followed from the middle of a run
MaxLiveSteps == 20   \* step() calls of a caller that keeps calling step()

None == 0
BUS_LANE == -1       \* lane index of the priority lane
NO_LANE == -2        \* generate_vehicle raised ValueError

Max2(a, b) == IF a >= b THEN a ELSE b
Min2(a, b) == IF a <= b THEN a ELSE b

RECURSIVE SeqSum(_)
SeqSum(s) == IF s = <<>> THEN 0 ELSE Head(s) + SeqSum(Tail(s))

RECURSIVE SeqMin(_)
SeqMin(s) == IF Len(s) = 1 THEN s[1] ELSE Min2(Head(s), SeqMin(Tail(s)))

SeqRange(s) == {s[i] : i \in 1..Len(s)}

VARIABLES
    params,             \* self.params : SimulationParameters
    num_lanes,          \* self.num_lanes
    has_bus_lane,       \* self.has_bus_lane
    traffic_lights,     \* self.traffic_lights : list of TrafficLight
    current_time,       \* self.current_time
    vehicles,           \* self.vehicles : active vehicles
    completed_vehicles, \* self.completed_vehicles
    vehicle_queue,      \* self.vehicle_queue
    simulation_data,    \* self.simulation_data : per-step time series
    vehicle_details,    \* self.simulation_data['vehicle_details'] : event log
    next_vehicle_id,    \* self.next_vehicle_id
    swallowed,          \* ValueErrors of generate_vehicle caught inside step()
    step_calls,         \* number of step() calls executed so far
    pc,                 \* position of the caller: "idle", "running", "returned", "raised"
    steps,              \* run_simulation: local `steps`
    step_idx,           \* run_simulation: loop variable `step`
    raised,             \* exception that reached the caller ("none" if none)
    result,             \* summary record returned by run_simulation
    save_data,          \* run_simulation: argument `save_data`
    files,              \* output tables of this run's export that exist on disk
    export_idx,         \* save_simulation_data_to_csv: tables handled so far
    call,               \* last call of a read-only method: its name and return value
    seed,               \* the seed, as the two output streams it determines
    rng,                \* the process-wide generators: outputs drawn since seeding
    trace,              \* engine states after each step of the present seeded run
    first_run,          \* trace and summary of the earlier run with the same seed
    other,              \* a second engine instance in the same process
    config,             \* self.config : RoadConfiguration
    infrastructure_config   \* self.infrastructure_config : <<>> if None, else <<layout>>

engineVars == <<current_time, vehicles, completed_vehicles, vehicle_queue,
                simulation_data, vehicle_details, next_vehicle_id, traffic_lights,
                swallowed, step_calls>>
configVars == <<params, num_lanes, has_bus_lane, config, infrastructure_config>>
runVars == <<pc, steps, step_idx, raised, result, save_data, files, export_idx>>
callVars == <<call>>
seedVars == <<seed, rng, trace, first_run>>
vars == <<configVars, engineVars, runVars, callVars, seedVars, other>>


(***************************************************************************)
(* The engine's mutable state as one record, so that the phases of step()  *)
(* compose as functions:                                                   *)
(*   [current_time, vehicles, completed_vehicles, vehicle_queue,           *)
(*    simulation_data, vehicle_details, next_vehicle_id, traffic_lights,   *)
(*    swallowed]                                                           *)
(* A Vehicle is the record of simulation/vehicle.py plus tt_writes, the    *)
(* number of assignments made to travel_time after construction.           *)
(***************************************************************************)
Engine ==
    [current_time |-> current_time, vehicles |-> vehicles,
     completed_vehicles |-> completed_vehicles, vehicle_queue |-> vehicle_queue,
     simulation_data |-> simulation_data, vehicle_details |-> vehicle_details,
     next_vehicle_id |-> next_vehicle_id, traffic_lights |-> traffic_lights,
     swallowed |-> swallowed]

get_vehicle_space(vehicle) ==
    IF vehicle.vehicle_type = "privileged" THEN BUS_TOTAL_SPACE ELSE CAR_TOTAL_SPACE

calculate_bus_lane_capacity ==
    IF ~has_bus_lane THEN 0
    ELSE Max2(1, params.road_length \div BUS_TOTAL_SPACE)

bus_lane_capacity == calculate_bus_lane_capacity

\* setup_infrastructure: every light starts green at time 0
setup_infrastructure(traffic_light_positions, green_ratio, cycle_duration) ==
    LET actual_cycle == IF cycle_duration # None THEN cycle_duration
                        ELSE params.traffic_light_cycle
    IN [i \in 1..Len(traffic_light_positions) |->
          [position |-> traffic_light_positions[i],
           cycle_duration |-> actual_cycle,
           green_duration |-> (actual_cycle * green_ratio) \div 100,
           current_phase |-> "green",
           phase_start_time |-> 0]]

\* record_vehicle_data; `active` is the active collection at that moment
record_vehicle_data(e, vehicle, action) ==
    [e EXCEPT !.vehicle_details = Append(@,
        [vehicle_id |-> vehicle.id, timestamp |-> e.current_time, action |-> action,
         vehicle_type |-> vehicle.vehicle_type, lane |-> vehicle.lane,
         position |-> vehicle.current_position, speed |-> vehicle.speed,
         travel_time |-> vehicle.travel_time, waiting_time |-> vehicle.waiting_time,
         will_turn |-> vehicle.will_turn, turn_position |-> vehicle.turn_position,
         active |-> e.vehicles])]

first_segment_end(lights) ==
    IF lights = <<>> THEN params.road_length
    ELSE SeqMin([i \in 1..Len(lights) |-> lights[i].position])

\* can_enter_road_segment with the candidate always counted as a car
can_enter_road_segment_car_space(vs, lights, lane, new_vehicle) ==
    LET seg_end == first_segment_end(lights)
        InSeg(v) == v.lane = lane /\ v.current_position <= seg_end
        vehicles_in_first_segment == SelectSeq(vs, InSeg)
        required_space == SeqSum([i \in 1..Len(vehicles_in_first_segment) |->
                                    get_vehicle_space(vehicles_in_first_segment[i])])
    IN required_space + CAR_TOTAL_SPACE <= seg_end

\* can_enter_road_segment(lane, new_vehicle) against the active collection vs
can_enter_road_segment(vs, lights, lane, new_vehicle) ==
    LET seg_end == first_segment_end(lights)
        InSeg(v) == v.lane = lane /\ v.current_position <= seg_end
        vehicles_in_first_segment == SelectSeq(vs, InSeg)
        required_space == SeqSum([i \in 1..Len(vehicles_in_first_segment) |->
                                    get_vehicle_space(vehicles_in_first_segment[i])])
        new_vehicle_space == get_vehicle_space(new_vehicle)
        available_space == seg_end
    IN required_space + new_vehicle_space <= available_space

\* step(): max_capacity
max_capacity ==
    LET base == params.lane_capacity * num_lanes
        withBus == IF has_bus_lane THEN base + bus_lane_capacity ELSE base
    IN IF num_lanes = 0 /\ has_bus_lane THEN bus_lane_capacity ELSE withBus

\* process_vehicle_queue: the loop, entered at queue index i
\* the release with a lane chosen anew: a released vehicle enters lane 0
RECURSIVE release_loop_reassigns_lane(_, _, _)
release_loop_reassigns_lane(e, i, cap) ==
    IF i > Len(e.vehicle_queue) THEN [e |-> e, released |-> i - 1]
    ELSE LET vehicle == e.vehicle_queue[i] IN
         IF Len(e.vehicles) < cap
            /\ can_enter_road_segment(e.vehicles, e.traffic_lights, vehicle.lane, vehicle)
         THEN LET v2 == [vehicle EXCEPT !.entry_time = e.current_time, !.lane = 0]
                  e2 == [e EXCEPT !.vehicles = Append(@, v2)]
              IN release_loop_reassigns_lane(
                   record_vehicle_data(e2, v2, "entered_from_queue"), i + 1, cap)
         ELSE [e |-> e, released |-> i - 1]

RECURSIVE release_loop(_, _, _)
release_loop(e, i, cap) ==
    IF i > Len(e.vehicle_queue) THEN [e |-> e, released |-> i - 1]
    ELSE LET vehicle == e.vehicle_queue[i] IN
         IF Len(e.vehicles) < cap
            /\ can_enter_road_segment(e.vehicles, e.traffic_lights, vehicle.lane, vehicle)
         THEN LET v2 == [vehicle EXCEPT !.entry_time = e.current_time]
                  e2 == [e EXCEPT !.vehicles = Append(@, v2)]
              IN release_loop(record_vehicle_data(e2, v2, "entered_from_queue"), i + 1, cap)
         ELSE [e |-> e, released |-> i - 1]

\* process_vehicle_queue with `continue` in place of `break`: a blocked
\* vehicle is skipped and the vehicles behind it are still tried
RECURSIVE release_skip_loop(_, _, _, _)
release_skip_loop(e, i, cap, kept) ==
    IF i > Len(e.vehicle_queue) THEN [e EXCEPT !.vehicle_queue = kept]
    ELSE LET vehicle == e.vehicle_queue[i] IN
         IF Len(e.vehicles) < cap
            /\ can_enter_road_segment(e.vehicles, e.traffic_lights, vehicle.lane, vehicle)
         THEN LET v2 == [vehicle EXCEPT !.entry_time = e.current_time]
                  e2 == [e EXCEPT !.vehicles = Append(@, v2)]
              IN release_skip_loop(record_vehicle_data(e2, v2, "entered_from_queue"),
                                   i + 1, cap, kept)
         ELSE release_skip_loop(e, i + 1, cap, Append(kept, vehicle))

process_vehicle_queue_skip_blocked(e, cap) == release_skip_loop(e, 1, cap, <<>>)

process_vehicle_queue(e, cap) ==
    LET r == release_loop(e, 1, cap)
    IN [r.e EXCEPT !.vehicle_queue = SubSeq(@, r.released + 1, Len(@))]

\* generate_traffic_intensity with a draw that ignores the mean
generate_traffic_intensity_any_mean == 0..MaxArrivals

\* generate_traffic_intensity: the values a Poisson draw of that mean can take
generate_traffic_intensity ==
    LET mean_intensity == (params.traffic_intensity_range[1]
                           + params.traffic_intensity_range[2]) \div 2
    IN IF mean_intensity = 0 THEN {0} ELSE 0..MaxArrivals

\* The random draws one generate_vehicle call consumes:
\*   privileged : random.random() < privileged_percentage
\*   will_turn  : should_vehicle_turn()
\*   turn_position : assign_turn_position()
\*   lane       : random.randint(0, num_lanes - 1), when it is drawn
turn_positions ==
    IF params.side_road_positions # <<>> THEN params.side_road_positions
    ELSE DEFAULT_SIDE_ROAD_POSITIONS

Draws ==
    [privileged : {b \in BOOLEAN : (b => params.privileged_percentage > 0)
                                   /\ (~b => params.privileged_percentage < 100)},
     will_turn : {b \in BOOLEAN : (b => params.turning_percentage_range[2] > 0)
                                  /\ (~b => params.turning_percentage_range[1] < 100)},
     turn_position : SeqRange(turn_positions),
     lane : IF num_lanes > 0 THEN 0..(num_lanes - 1) ELSE {0}]

\* the lane choice with the priority lane taken whatever its occupancy
assign_lane_any_occupancy(vs, vehicle_type, d) ==
    IF vehicle_type = "privileged" /\ has_bus_lane THEN BUS_LANE
    ELSE IF num_lanes > 0 THEN d.lane
    ELSE NO_LANE

\* generate_vehicle: lane = NO_LANE stands for the ValueError it raises
assign_lane(vs, vehicle_type, d) ==
    LET OnBus(v) == v.lane = BUS_LANE
        bus_lane_vehicles == SelectSeq(vs, OnBus)
    IN IF vehicle_type = "privileged" /\ has_bus_lane
       THEN IF Len(bus_lane_vehicles) < bus_lane_capacity THEN BUS_LANE
            ELSE IF num_lanes > 0 THEN d.lane
            ELSE NO_LANE
       ELSE IF num_lanes > 0 THEN d.lane
       ELSE NO_LANE

generate_vehicle(e, d) ==
    LET vehicle_type == IF d.privileged THEN "privileged" ELSE "regular"
        will_turn == d.will_turn
        turn_position == IF will_turn THEN d.turn_position ELSE None
        lane == assign_lane(e.vehicles, vehicle_type, d)
    IN [id |-> e.next_vehicle_id, vehicle_type |-> vehicle_type,
        entry_time |-> e.current_time, current_position |-> 0, speed |-> 0,
        lane |-> lane, will_turn |-> will_turn, turn_position |-> turn_position,
        waiting_time |-> 0, travel_time |-> 0, tt_writes |-> 0]

\* the generation loop with `<=` in the capacity test
RECURSIVE generation_loop_at_ceiling(_, _, _, _)
generation_loop_at_ceiling(e, draws, i, cap) ==
    IF i > Len(draws) THEN e
    ELSE LET new_vehicle == generate_vehicle(e, draws[i])
             e1 == [e EXCEPT !.next_vehicle_id = @ + 1]
         IN IF new_vehicle.lane = NO_LANE
            THEN [e EXCEPT !.swallowed = @ + 1]
            ELSE IF Len(e.vehicles) <= cap
                    /\ can_enter_road_segment(e1.vehicles, e1.traffic_lights,
                                              new_vehicle.lane, new_vehicle)
            THEN generation_loop_at_ceiling(
                   record_vehicle_data([e1 EXCEPT !.vehicles = Append(@, new_vehicle)],
                                       new_vehicle, "entered"),
                   draws, i + 1, cap)
            ELSE generation_loop_at_ceiling(
                   record_vehicle_data([e1 EXCEPT !.vehicle_queue = Append(@, new_vehicle)],
                                       new_vehicle, "queued"),
                   draws, i + 1, cap)

\* step(): the body of `for _ in range(int(vehicles_to_generate))`, entered at
\* draw i.  A ValueError of generate_vehicle is caught in both branches, ends
\* the loop, and the vehicle is not created (next_vehicle_id is not advanced).
RECURSIVE generation_loop(_, _, _, _)
generation_loop(e, draws, i, cap) ==
    IF i > Len(draws) THEN e
    ELSE LET new_vehicle == generate_vehicle(e, draws[i])
             e1 == [e EXCEPT !.next_vehicle_id = @ + 1]
         IN IF new_vehicle.lane = NO_LANE
            THEN [e EXCEPT !.swallowed = @ + 1]
            ELSE IF Len(e.vehicles) < cap
            THEN IF can_enter_road_segment(e1.vehicles, e1.traffic_lights,
                                           new_vehicle.lane, new_vehicle)
                 THEN generation_loop(
                        record_vehicle_data([e1 EXCEPT !.vehicles = Append(@, new_vehicle)],
                                            new_vehicle, "entered"),
                        draws, i + 1, cap)
                 ELSE generation_loop(
                        record_vehicle_data([e1 EXCEPT !.vehicle_queue = Append(@, new_vehicle)],
                                            new_vehicle, "queued"),
                        draws, i + 1, cap)
            ELSE generation_loop(
                   record_vehicle_data([e1 EXCEPT !.vehicle_queue = Append(@, new_vehicle)],
                                       new_vehicle, "queued"),
                   draws, i + 1, cap)

\* the update with strict comparisons of the time in phase
update_light_strict(light, now) ==
    LET time_in_phase == now - light.phase_start_time
    IN IF light.current_phase = "green" /\ time_in_phase > light.green_duration
       THEN [light EXCEPT !.current_phase = "red", !.phase_start_time = now]
       ELSE IF light.current_phase = "red"
               /\ time_in_phase > light.cycle_duration - light.green_duration
       THEN [light EXCEPT !.current_phase = "green", !.phase_start_time = now]
       ELSE light

\* the update without the end of the red phase
update_light_stays_red(light, now) ==
    LET time_in_phase == now - light.phase_start_time
    IN IF light.current_phase = "green" /\ time_in_phase >= light.green_duration
       THEN [light EXCEPT !.current_phase = "red", !.phase_start_time = now]
       ELSE light

\* update_traffic_lights: the body of `for light in self.traffic_lights`
update_light(light, now) ==
    LET time_in_phase == now - light.phase_start_time
    IN IF light.current_phase = "green" /\ time_in_phase >= light.green_duration
       THEN [light EXCEPT !.current_phase = "red", !.phase_start_time = now]
       ELSE IF light.current_phase = "red"
               /\ time_in_phase >= light.cycle_duration - light.green_duration
       THEN [light EXCEPT !.current_phase = "green", !.phase_start_time = now]
       ELSE light

update_traffic_lights(e) ==
    [e EXCEPT !.traffic_lights =
        [i \in 1..Len(@) |-> update_light(@[i], e.current_time)]]

\* the speed rule with a vehicle level with a red signal stopped as well
calculate_vehicle_speed_stops_at_signal(vs, lights, vehicle) ==
    LET base_speed == BASE_VEHICLE_SPEED
        stopped == \E i \in 1..Len(lights) :
                      LET distance_to_light == lights[i].position - vehicle.current_position
                      IN /\ 0 <= distance_to_light
                         /\ distance_to_light < TRAFFIC_LIGHT_STOPPING_DISTANCE
                         /\ lights[i].current_phase = "red"
        Ahead(o) == /\ o.lane = vehicle.lane
                    /\ o.current_position > vehicle.current_position
                    /\ o.current_position - vehicle.current_position < DETECTION_DISTANCE
                    /\ o.id # vehicle.id
        vehicles_ahead == SelectSeq(vs, Ahead)
        density_factor == Max2(MIN_DENSITY_FACTOR,
                               100 - Len(vehicles_ahead) * DENSITY_REDUCTION_RATE)
    IN IF stopped THEN 0 ELSE (base_speed * density_factor) \div 100

calculate_vehicle_speed(vs, lights, vehicle) ==
    LET base_speed == BASE_VEHICLE_SPEED
        stopped == \E i \in 1..Len(lights) :
                      LET distance_to_light == lights[i].position - vehicle.current_position
                      IN /\ 0 < distance_to_light
                         /\ distance_to_light < TRAFFIC_LIGHT_STOPPING_DISTANCE
                         /\ lights[i].current_phase = "red"
        Ahead(o) == /\ o.lane = vehicle.lane
                    /\ o.current_position > vehicle.current_position
                    /\ o.current_position - vehicle.current_position < DETECTION_DISTANCE
                    /\ o.id # vehicle.id
        vehicles_ahead == SelectSeq(vs, Ahead)
        density_factor == Max2(MIN_DENSITY_FACTOR,
                               100 - Len(vehicles_ahead) * DENSITY_REDUCTION_RATE)
    IN IF stopped THEN 0 ELSE (base_speed * density_factor) \div 100

\* jagodno.py, the single-file edition of the engine: the multiplier of the
\* density factor on the priority lane, in percent
BUS_LANE_DENSITY_BONUS == 120

\* jagodno.py: TrafficSimulation._calculate_vehicle_speed
jagodno_calculate_vehicle_speed(vs, lights, vehicle) ==
    LET base_speed == 500
        stopped == \E i \in 1..Len(lights) :
                      LET distance_to_light == lights[i].position - vehicle.current_position
                      IN /\ 0 < distance_to_light
                         /\ distance_to_light < 720
                         /\ lights[i].current_phase = "red"
        Ahead(o) == /\ o.lane = vehicle.lane
                    /\ o.current_position > vehicle.current_position
                    /\ o.current_position - vehicle.current_position < DETECTION_DISTANCE
                    /\ o.id # vehicle.id
        vehicles_ahead == SelectSeq(vs, Ahead)
        density_factor == Max2(10, 100 - Len(vehicles_ahead) * 15)
        bus_lane_factor == IF vehicle.lane = BUS_LANE
                           THEN Min2(100, (density_factor * BUS_LANE_DENSITY_BONUS) \div 100)
                           ELSE density_factor
    IN IF stopped THEN 0 ELSE (base_speed * bus_lane_factor) \div 100

\* the distance of ten time increments: more than the stopping distance
step_distance_ten_increments(speed, time_step) ==
    (speed * time_step * UNITS_PER_KM) \div (SPEED_SCALE * 3600)

\* distance = vehicle.speed * (time_step / 3600), in position units
step_distance(speed, time_step) ==
    (speed * time_step * UNITS_PER_KM) \div (SPEED_SCALE * TIME_SCALE * 3600)

\* the motion loop with travel_time assigned on every move, not only on
\* completion
RECURSIVE move_loop_always_writes(_, _, _)
move_loop_always_writes(e, i, gone) ==
    IF i > Len(e.vehicles) THEN [e |-> e, gone |-> gone]
    ELSE LET v0 == e.vehicles[i]
             speed == calculate_vehicle_speed(e.vehicles, e.traffic_lights, v0)
             v1 == [v0 EXCEPT !.speed = speed,
                              !.waiting_time = IF speed = 0 THEN @ + params.time_step ELSE @,
                              !.current_position = @ + step_distance(speed, params.time_step)]
             turned == /\ v1.will_turn /\ v1.turn_position # None
                       /\ v1.current_position >= v1.turn_position
             exited == ~turned /\ v1.current_position >= params.road_length
             v2 == [v1 EXCEPT !.travel_time = e.current_time - v1.entry_time,
                              !.tt_writes = @ + 1]
             e1 == [e EXCEPT !.vehicles[i] = v2]
             e2 == IF turned \/ exited
                   THEN [record_vehicle_data(e1, v2, IF turned THEN "turned" ELSE "exited")
                           EXCEPT !.completed_vehicles = Append(@, v2)]
                   ELSE e1
         IN move_loop_always_writes(e2, i + 1,
                                    IF turned \/ exited THEN gone \cup {i} ELSE gone)

\* the motion loop with the corridor-end test before the diversion test
RECURSIVE move_loop_end_first(_, _, _)
move_loop_end_first(e, i, gone) ==
    IF i > Len(e.vehicles) THEN [e |-> e, gone |-> gone]
    ELSE LET v0 == e.vehicles[i]
             speed == calculate_vehicle_speed(e.vehicles, e.traffic_lights, v0)
             v1 == [v0 EXCEPT !.speed = speed,
                              !.waiting_time = IF speed = 0 THEN @ + params.time_step ELSE @,
                              !.current_position = @ + step_distance(speed, params.time_step)]
             exited == v1.current_position >= params.road_length
             turned == /\ ~exited
                       /\ v1.will_turn /\ v1.turn_position # None
                       /\ v1.current_position >= v1.turn_position
             v2 == IF turned \/ exited
                   THEN [v1 EXCEPT !.travel_time = e.current_time - v1.entry_time,
                                   !.tt_writes = @ + 1]
                   ELSE v1
             e1 == [e EXCEPT !.vehicles[i] = v2]
             e2 == IF turned \/ exited
                   THEN [record_vehicle_data(e1, v2, IF turned THEN "turned" ELSE "exited")
                           EXCEPT !.completed_vehicles = Append(@, v2)]
                   ELSE e1
         IN move_loop_end_first(e2, i + 1, IF turned \/ exited THEN gone \cup {i} ELSE gone)

\* move_vehicles: the body of `for vehicle in self.vehicles`, entered at index
\* i; vehicles are updated in place, so vehicle i sees the new positions of
\* the vehicles before it in the list.  `gone` are the indices to remove.
RECURSIVE move_loop(_, _, _)
move_loop(e, i, gone) ==
    IF i > Len(e.vehicles) THEN [e |-> e, gone |-> gone]
    ELSE LET v0 == e.vehicles[i]
             speed == calculate_vehicle_speed(e.vehicles, e.traffic_lights, v0)
             v1 == [v0 EXCEPT !.speed = speed,
                              !.waiting_time = IF speed = 0 THEN @ + params.time_step ELSE @,
                              !.current_position = @ + step_distance(speed, params.time_step)]
             turned == /\ v1.will_turn /\ v1.turn_position # None
                       /\ v1.current_position >= v1.turn_position
             exited == ~turned /\ v1.current_position >= params.road_length
             v2 == IF turned \/ exited
                   THEN [v1 EXCEPT !.travel_time = e.current_time - v1.entry_time,
                                   !.tt_writes = @ + 1]
                   ELSE v1
             e1 == [e EXCEPT !.vehicles[i] = v2]
             e2 == IF turned \/ exited
                   THEN [record_vehicle_data(e1, v2, IF turned THEN "turned" ELSE "exited")
                           EXCEPT !.completed_vehicles = Append(@, v2)]
                   ELSE e1
         IN move_loop(e2, i + 1, IF turned \/ exited THEN gone \cup {i} ELSE gone)

RECURSIVE remove_indices(_, _, _)
remove_indices(s, gone, i) ==
    IF i > Len(s) THEN <<>>
    ELSE (IF i \in gone THEN <<>> ELSE <<s[i]>>) \o remove_indices(s, gone, i + 1)

\* move_vehicles without the removal of the completed vehicles
move_vehicles_keep_completed(e) == move_loop(e, 1, {}).e

move_vehicles(e) ==
    LET r == move_loop(e, 1, {})
    IN [r.e EXCEPT !.vehicles = remove_indices(@, r.gone, 1)]

\* vehicle_data.sort(key=position): stable insertion into a sorted list
RECURSIVE insert_by_position(_, _)
insert_by_position(sorted, v) ==
    IF sorted = <<>> THEN <<v>>
    ELSE IF v.current_position < Head(sorted).current_position
    THEN <<v>> \o sorted
    ELSE <<Head(sorted)>> \o insert_by_position(Tail(sorted), v)

RECURSIVE sort_by_position(_)
sort_by_position(s) ==
    IF s = <<>> THEN <<>>
    ELSE insert_by_position(sort_by_position(SubSeq(s, 1, Len(s) - 1)), s[Len(s)])

\* the scan with a gap equal to the threshold still joining the group
RECURSIVE jam_scan_joins_at_threshold(_, _, _, _)
jam_scan_joins_at_threshold(vehicle_data, i, max_jam_length, current_jam_length) ==
    IF i > Len(vehicle_data) THEN Max2(max_jam_length, current_jam_length)
    ELSE LET vehicle_space == get_vehicle_space(vehicle_data[i]) IN
         IF i = 1
         THEN jam_scan_joins_at_threshold(vehicle_data, 2, max_jam_length, vehicle_space)
         ELSE LET gap == vehicle_data[i].current_position
                         - vehicle_data[i - 1].current_position
              IN IF gap <= JAM_THRESHOLD_DISTANCE
                 THEN jam_scan_joins_at_threshold(vehicle_data, i + 1, max_jam_length,
                                                  current_jam_length + vehicle_space)
                 ELSE jam_scan_joins_at_threshold(vehicle_data, i + 1,
                                                  Max2(max_jam_length, current_jam_length),
                                                  vehicle_space)

\* calculate_traffic_jam_length: the scan, entered at index i
RECURSIVE jam_scan(_, _, _, _)
jam_scan(vehicle_data, i, max_jam_length, current_jam_length) ==
    IF i > Len(vehicle_data) THEN Max2(max_jam_length, current_jam_length)
    ELSE LET vehicle_space == get_vehicle_space(vehicle_data[i]) IN
         IF i = 1 THEN jam_scan(vehicle_data, 2, max_jam_length, vehicle_space)
         ELSE LET gap == vehicle_data[i].current_position
                         - vehicle_data[i - 1].current_position
              IN IF gap < JAM_THRESHOLD_DISTANCE
                 THEN jam_scan(vehicle_data, i + 1, max_jam_length,
                               current_jam_length + vehicle_space)
                 ELSE jam_scan(vehicle_data, i + 1,
                               Max2(max_jam_length, current_jam_length), vehicle_space)

calculate_traffic_jam_length(vs) ==
    LET Slow(v) == v.speed < SLOW_TRAFFIC_THRESHOLD
        slow_vehicles == SelectSeq(vs, Slow)
    IN IF slow_vehicles = <<>> THEN 0
       ELSE jam_scan(sort_by_position(slow_vehicles), 1, 0, 0)

\* v.current_position / max(v.travel_time, 1) * 3600, in speed units
realized_speed(v) ==
    (v.current_position * TIME_SCALE * SECONDS_PER_HOUR * SPEED_SCALE)
      \div (UNITS_PER_KM * Max2(v.travel_time, TIME_SCALE))

\* calculate_bus_efficiency, in efficiency units.  A mean of no value is nan
\* and a float division by 0.0 gives -inf or nan; max(0.0, .) of these is 0.0.
calculate_bus_efficiency(cs) ==
    LET Bus(v) == v.vehicle_type = "privileged"
        Regular(v) == v.vehicle_type = "regular"
        Timed(v) == v.travel_time > 0
        bus_vehicles == SelectSeq(cs, Bus)
        regular_vehicles == SelectSeq(cs, Regular)
        TimeSum(s) == SeqSum([i \in 1..Len(s) |-> s[i].travel_time])
        SpeedSum(s) == SeqSum([i \in 1..Len(s) |-> realized_speed(s[i])])
        \* (avg_regular_time - avg_bus_time) / avg_regular_time * 100
        time_efficiency ==
            IF TimeSum(regular_vehicles) = 0 THEN 0
            ELSE Max2(0, ((TimeSum(regular_vehicles) * Len(bus_vehicles)
                            - TimeSum(bus_vehicles) * Len(regular_vehicles))
                          * 100 * EFFICIENCY_SCALE)
                         \div (TimeSum(regular_vehicles) * Len(bus_vehicles)))
        bus_timed == SelectSeq(bus_vehicles, Timed)
        regular_timed == SelectSeq(regular_vehicles, Timed)
        \* (bus_speed - regular_speed) / regular_speed * 100 if regular_speed > 0
        speed_efficiency ==
            IF bus_timed = <<>> \/ regular_timed = <<>> \/ SpeedSum(regular_timed) = 0
            THEN 0
            ELSE Max2(0, ((SpeedSum(bus_timed) * Len(regular_timed)
                            - SpeedSum(regular_timed) * Len(bus_timed))
                          * 100 * EFFICIENCY_SCALE)
                         \div (SpeedSum(regular_timed) * Len(bus_timed)))
    IN IF ~has_bus_lane THEN 0
       ELSE IF bus_vehicles = <<>> \/ regular_vehicles = <<>> THEN 0
       ELSE (time_efficiency * 70 + speed_efficiency * 30) \div 100

\* collect_simulation_data; average_speeds keeps the mean truncated to the
\* speed unit
collect_simulation_data(e) ==
    LET OnBus(v) == v.lane = BUS_LANE
        n == Len(e.vehicles)
    IN [e EXCEPT !.simulation_data = Append(@,
          [timesteps |-> e.current_time,
           vehicles_in_motion |-> n,
           average_speeds |-> IF n > 0
                              THEN SeqSum([i \in 1..n |-> e.vehicles[i].speed]) \div n
                              ELSE 0,
           jam_lengths |-> calculate_traffic_jam_length(e.vehicles),
           light_states |-> [i \in 1..Len(e.traffic_lights) |->
                               e.traffic_lights[i].current_phase],
           bus_lane_utilization |-> IF has_bus_lane
                                    THEN Len(SelectSeq(e.vehicles, OnBus)) ELSE 0,
           vehicles_in_queue |-> Len(e.vehicle_queue)])]

advance_clock(e) == [e EXCEPT !.current_time = @ + params.time_step]

\* step(): demand generation for the given draws
generate_demand(e, draws) == generation_loop(e, draws, 1, max_capacity)

\* step() with the clock advanced before the telemetry capture
step_phases_clock_first(e, draws) ==
    collect_simulation_data(
      advance_clock(
        move_vehicles(
          update_traffic_lights(
            generate_demand(process_vehicle_queue(e, max_capacity), draws)))))

\* step(): the phases in the order of the code
step_phases(e, draws) ==
    advance_clock(
      collect_simulation_data(
        move_vehicles(
          update_traffic_lights(
            generate_demand(process_vehicle_queue(e, max_capacity), draws)))))

(***************************************************************************)
(* Seeded draws.  random.seed(s) and np.random.seed(s) put the two         *)
(* process-wide generators at the start of the output streams the seed     *)
(* determines; every call of np.random.poisson takes the next output of    *)
(* the first stream, every call of random.random, random.uniform,          *)
(* random.choice and random.randint the next output of the second.  An     *)
(* output of `random` is one of RawValues; random() reads it as 0.0 or     *)
(* 0.5, the integer draws read it modulo their range.  The streams are     *)
(* periodic.                                                               *)
(***************************************************************************)
RawValues == {0, 1}

Seeds == [np : [1..NpStreamLen -> 0..MaxArrivals], py : [1..PyStreamLen -> RawValues]]

stream_value(stream, drawn) == stream[(drawn % Len(stream)) + 1]

\* seeding that leaves the generators where they are
random_seed_ignored(generators) == generators

\* np.random.seed(run_seed); random.seed(run_seed)
random_seed(generators) == [np |-> 0, py |-> 0]

\* random.random() as a percentage
random_random(stream, drawn) == stream_value(stream, drawn) * 50

\* the draws of one generate_vehicle() call on engine state e, and the number
\* of outputs of `random` drawn after it
seeded_vehicle_draws(e, stream, drawn) ==
    LET privileged == random_random(stream, drawn) < params.privileged_percentage
        range == params.turning_percentage_range
        \* random.uniform(*turning_percentage_range)
        turning_rate == range[1]
                        + ((range[2] - range[1]) * random_random(stream, drawn + 1)) \div 100
        will_turn == random_random(stream, drawn + 2) < turning_rate
        \* random.choice(positions), called for a diverting vehicle only
        turn_position ==
            IF will_turn
            THEN turn_positions[(stream_value(stream, drawn + 3) % Len(turn_positions)) + 1]
            ELSE turn_positions[1]
        after_turn == IF will_turn THEN drawn + 4 ELSE drawn + 3
        OnBus(v) == v.lane = BUS_LANE
        \* random.randint(0, num_lanes - 1), called on the two regular-lane branches
        draws_lane ==
            /\ num_lanes > 0
            /\ ~(/\ privileged
                 /\ has_bus_lane
                 /\ Len(SelectSeq(e.vehicles, OnBus)) < bus_lane_capacity)
    IN [d |-> [privileged |-> privileged, will_turn |-> will_turn,
               turn_position |-> turn_position,
               lane |-> IF draws_lane THEN stream_value(stream, after_turn) % num_lanes
                        ELSE 0],
        drawn |-> IF draws_lane THEN after_turn + 1 ELSE after_turn]

\* the draws of the generation loop of one step(): arrival k is drawn on the
\* engine state the first k - 1 arrivals leave; a ValueError ends the loop
RECURSIVE seeded_generation_draws(_, _, _, _, _)
seeded_generation_draws(e, n, draws, stream, drawn) ==
    LET e1 == generation_loop(e, draws, 1, max_capacity)
    IN IF Len(draws) = n \/ e1.swallowed > e.swallowed
       THEN [draws |-> draws, drawn |-> drawn]
       ELSE LET v == seeded_vehicle_draws(e1, stream, drawn)
            IN seeded_generation_draws(e, n, Append(draws, v.d), stream, v.drawn)

\* the draws of one step() on engine state e, and the generators after it
seeded_step_draws(e, streams, generators) ==
    LET vehicles_to_generate ==
            IF generate_traffic_intensity = {0} THEN 0
            ELSE stream_value(streams.np, generators.np)
        g == seeded_generation_draws(process_vehicle_queue(e, max_capacity),
                                     vehicles_to_generate, <<>>, streams.py, generators.py)
    IN [draws |-> g.draws,
        generators |-> [np |-> (generators.np + 1) % NpStreamLen,
                        py |-> g.drawn % PyStreamLen]]

(***************************************************************************)
(* Parameter sets.  A scenario is a SimulationParameters value together    *)
(* with the InfrastructureConfig the engine is constructed with.  Roads    *)
(* are short (a few steps long) so that entry, stopping at a red light,    *)
(* queueing and completion all happen within a few steps.                  *)
(***************************************************************************)
BaseParams ==
    [road_length |-> 300, lane_capacity |-> 1,
     traffic_intensity_range |-> <<1800, 1800>>,
     turning_percentage_range |-> <<0, 0>>,
     privileged_percentage |-> 0,
     traffic_light_cycle |-> 20,
     simulation_duration |-> 0, time_step |-> 10,
     side_road_positions |-> <<150>>]

BaseInfra ==
    [num_lanes |-> 2, has_bus_lane |-> FALSE,
     traffic_light_positions |-> <<100, 250>>, green_ratio |-> 50,
     cycle_duration |-> None]

\* two regular lanes, priority-category vehicles only
TwoLanes ==
    [params |-> [BaseParams EXCEPT !.privileged_percentage = 100, !.lane_capacity = 2],
     infra |-> BaseInfra]

\* one regular lane shared by both categories; a car and a bus together fill
\* the initial segment exactly
MixedLane ==
    [params |-> [BaseParams EXCEPT !.privileged_percentage = 50, !.lane_capacity = 3],
     infra |-> [BaseInfra EXCEPT !.num_lanes = 1, !.traffic_light_positions = <<126>>]]

\* one regular lane with room for one vehicle, some vehicles divert
OneLane ==
    [params |-> [BaseParams EXCEPT !.turning_percentage_range = <<0, 50>>],
     infra |-> [BaseInfra EXCEPT !.num_lanes = 1, !.traffic_light_positions = <<100>>]]

\* no lane at all
NoLanes ==
    [params |-> [BaseParams EXCEPT !.privileged_percentage = 50],
     infra |-> [BaseInfra EXCEPT !.num_lanes = 0]]

\* priority lane only
BusLaneOnly ==
    [params |-> [BaseParams EXCEPT !.privileged_percentage = 50],
     infra |-> [BaseInfra EXCEPT !.num_lanes = 0, !.has_bus_lane = TRUE]]

\* one regular lane and a priority lane
LaneAndBusLane ==
    [params |-> [BaseParams EXCEPT !.privileged_percentage = 50, !.lane_capacity = 2],
     infra |-> [BaseInfra EXCEPT !.num_lanes = 1, !.has_bus_lane = TRUE]]

\* zero demand
ZeroDemand ==
    [params |-> [BaseParams EXCEPT !.traffic_intensity_range = <<0, 0>>,
                                   !.privileged_percentage = 50],
     infra |-> BaseInfra]

\* a green duration that is not a multiple of the time step: cycle 2.5 s,
\* green 1.5 s, steps of 1 s (the defaults are 67.5 s, 40.5 s and 1 s)
OffGridSignal ==
    [params |-> BaseParams,
     infra |-> [BaseInfra EXCEPT !.num_lanes = 1, !.traffic_light_positions = <<100>>,
                                 !.green_ratio = 60, !.cycle_duration = 25]]

StepScenarios ==
    {TwoLanes, MixedLane, OneLane, NoLanes, BusLaneOnly, LaneAndBusLane, ZeroDemand,
     OffGridSignal}

\* run_simulation: every duration from 0 to MaxRunSteps seconds
RunScenarios ==
    {[params |-> [BaseParams EXCEPT !.simulation_duration = n * 10 + r],
      infra |-> [BaseInfra EXCEPT !.num_lanes = 1]] : n \in 0..MaxRunSteps, r \in {0, 5}}

\* TrafficSimulation.__init__ with an explicit infrastructure_config, up to the
\* two collections the read-only methods are evaluated on
Fresh(sc) ==
    /\ config = "CUSTOM"
    /\ infrastructure_config = <<sc.infra>>
    /\ params = sc.params
    /\ num_lanes = sc.infra.num_lanes
    /\ has_bus_lane = sc.infra.has_bus_lane
    /\ traffic_lights = setup_infrastructure(sc.infra.traffic_light_positions,
                                             sc.infra.green_ratio, sc.infra.cycle_duration)
    /\ current_time = 0
    /\ vehicle_queue = <<>>
    /\ simulation_data = <<>>
    /\ vehicle_details = <<>>
    /\ next_vehicle_id = 1
    /\ swallowed = 0
    /\ step_calls = 0
    /\ pc = "idle"
    /\ steps = 0
    /\ step_idx = 0
    /\ raised = "none"
    /\ result = [returned |-> FALSE]
    /\ save_data = FALSE
    /\ files = {}
    /\ export_idx = 0
    /\ call = [method |-> "none"]
    /\ other = [constructed |-> FALSE]

\* the generators have not been seeded: every draw is unconstrained
Unseeded ==
    /\ seed = [np |-> <<>>, py |-> <<>>]
    /\ rng = [np |-> 0, py |-> 0]
    /\ trace = <<>>
    /\ first_run = [done |-> FALSE]

\* TrafficSimulation.__init__: no vehicle is active or completed
Construct(sc) ==
    /\ Fresh(sc)
    /\ vehicles = <<>>
    /\ completed_vehicles = <<>>
    /\ Unseeded

Init == \E sc \in StepScenarios : Construct(sc)

InitRun == \E sc \in RunScenarios : Construct(sc)

\* the draws of one step(): the Poisson count and one Draws value per arrival
StepDraws ==
    UNION {[1..n -> {d \in Draws : ~d.will_turn => d.turn_position = turn_positions[1]}] :
             n \in {k \in generate_traffic_intensity :
                      k <= MaxVehicles - (next_vehicle_id - 1)}}

\* the effect of one step() call on the engine
DoStep(draws) ==
    LET r == step_phases(Engine, draws)
    IN /\ current_time' = r.current_time
       /\ vehicles' = r.vehicles
       /\ completed_vehicles' = r.completed_vehicles
       /\ vehicle_queue' = r.vehicle_queue
       /\ simulation_data' = r.simulation_data
       /\ vehicle_details' = r.vehicle_details
       /\ next_vehicle_id' = r.next_vehicle_id
       /\ traffic_lights' = r.traffic_lights
       /\ swallowed' = r.swallowed
       /\ step_calls' = step_calls + 1

\* a caller invokes step() directly; step() never raises
Step ==
    /\ pc = "idle"
    /\ step_calls < MaxSteps
    /\ \E draws \in StepDraws : DoStep(draws)
    /\ UNCHANGED <<configVars, runVars, callVars, seedVars, other>>

\* run_simulation up to the loop: steps = int(simulation_duration / time_step);
\* a rerun is called with the arguments of the first run
RunBegin ==
    /\ pc = "idle"
    /\ save_data' \in (IF first_run.done THEN {first_run.save_data} ELSE BOOLEAN)
    /\ steps' = params.simulation_duration \div params.time_step
    /\ step_idx' = 0
    /\ pc' = "running"
    /\ UNCHANGED <<configVars, engineVars, raised, result, files, export_idx,
                   callVars, seedVars, other>>

\* one iteration of `for step in range(steps)`: step(), then the progress
\* test `step % (steps // 10) == 0`, which divides by zero when steps < 10
RunIterateWith(draws) ==
    /\ pc = "running"
    /\ step_idx < steps
    /\ DoStep(draws)
    /\ IF steps \div 10 = 0
       THEN /\ pc' = "raised"
            /\ raised' = "ZeroDivisionError"
            /\ UNCHANGED step_idx
       ELSE /\ step_idx' = step_idx + 1
            /\ UNCHANGED <<pc, raised>>
    /\ UNCHANGED <<configVars, steps, result, save_data, files, export_idx, callVars, other>>

\* an iteration whose draws are unconstrained
RunIterate ==
    /\ \E draws \in StepDraws : RunIterateWith(draws)
    /\ UNCHANGED seedVars

\* get_configuration_description: the values the description string is built of
get_configuration_description ==
    [num_lanes |-> num_lanes, has_bus_lane |-> has_bus_lane,
     bus_lane_capacity |-> bus_lane_capacity,
     light_positions |-> [i \in 1..Len(traffic_lights) |-> traffic_lights[i].position],
     green_duration |-> IF traffic_lights # <<>> THEN traffic_lights[1].green_duration
                        ELSE None,
     cycle_duration |-> IF traffic_lights # <<>> THEN traffic_lights[1].cycle_duration
                        ELSE None]

\* the tables save_simulation_data_to_csv writes, in the order it writes them:
\* the vehicle and lane tables only if an event was recorded (the lane table
\* also needs an admission among the events), the signal table only if some
\* step recorded a signal
export_tables ==
    LET Admission(ev) == ev.action \in {"entered", "entered_from_queue"}
        Lit(entry) == entry.light_states # <<>>
    IN <<"timeseries">>
       \o (IF vehicle_details # <<>> THEN <<"vehicles">> ELSE <<>>)
       \o <<"config">>
       \o (IF SelectSeq(vehicle_details, Admission) # <<>>
           THEN <<"lane_capacity">> ELSE <<>>)
       \o (IF SelectSeq(simulation_data, Lit) # <<>> THEN <<"traffic_lights">> ELSE <<>>)

\* run_simulation after the loop with save_data: save_simulation_data_to_csv
\* is entered; creating the output directory may fail
SaveBegin ==
    /\ pc = "running"
    /\ step_idx = steps
    /\ save_data
    /\ \/ /\ pc' = "saving"
          /\ export_idx' = 0
          /\ UNCHANGED raised
       \/ /\ pc' = "raised"
          /\ raised' = "OSError"
          /\ UNCHANGED export_idx
    /\ UNCHANGED <<configVars, engineVars, steps, step_idx, result, save_data, files,
                   callVars, seedVars, other>>

\* one to_csv call of save_simulation_data_to_csv: the table is written, or
\* the write fails and the error leaves run_simulation
WriteTable ==
    /\ pc = "saving"
    /\ export_idx < Len(export_tables)
    /\ \/ /\ files' = files \cup {export_tables[export_idx + 1]}
          /\ export_idx' = export_idx + 1
          /\ UNCHANGED <<pc, raised>>
       \/ /\ pc' = "raised"
          /\ raised' = "OSError"
          /\ UNCHANGED <<files, export_idx>>
    /\ UNCHANGED <<configVars, engineVars, steps, step_idx, result, save_data,
                   callVars, seedVars, other>>

\* run_simulation after the loop and the export, if any: the summary record;
\* simulation_time is the wall-clock time the call took
RunReturn ==
    /\ \/ pc = "running" /\ step_idx = steps /\ ~save_data
       \/ pc = "saving" /\ export_idx = Len(export_tables)
    /\ \E execution_time \in 1..MaxElapsed :
       result' = [returned |-> TRUE,
                  simulation_time |-> execution_time,
                  completed_vehicles |-> Len(completed_vehicles),
                  vehicles_in_simulation |-> Len(vehicles),
                  vehicles_in_queue |-> Len(vehicle_queue),
                  data_points |-> Len(simulation_data),
                  config |-> get_configuration_description,
                  filename |-> IF save_data THEN "data_filename" ELSE "None"]
    /\ pc' = "returned"
    /\ UNCHANGED <<configVars, engineVars, steps, step_idx, raised, save_data, files,
                   export_idx, callVars, seedVars, other>>

Next == Step

Spec == Init /\ [][Next]_vars

NextRun == RunBegin \/ RunIterate \/ SaveBegin \/ WriteTable \/ RunReturn

SpecRun == InitRun /\ [][NextRun]_vars

(***************************************************************************)
(* calculate_traffic_jam_length on its own: an engine whose active         *)
(* collection holds up to MaxJamVehicles vehicles, each stopped or moving  *)
(* above the slow-traffic threshold, at positions whose gaps lie below,    *)
(* at and above the jam-gap threshold.                                     *)
(***************************************************************************)
LongRoad ==
    [params |-> [BaseParams EXCEPT !.road_length = 1000, !.privileged_percentage = 50,
                                   !.lane_capacity = 4],
     infra |-> [BaseInfra EXCEPT !.num_lanes = 1, !.traffic_light_positions = <<900>>]]

JamPositions == {0, 355, 360, 720}

JamVehicle(i) ==
    [id : {i}, vehicle_type : {"regular", "privileged"}, entry_time : {0},
     current_position : JamPositions, speed : {0, 125}, lane : {0},
     will_turn : {FALSE}, turn_position : {None}, waiting_time : {0},
     travel_time : {0}, tt_writes : {0}]

JamInputs ==
    UNION {{vs \in [1..n -> UNION {JamVehicle(i) : i \in 1..n}] :
              \A i \in 1..n : vs[i].id = i} : n \in 0..MaxJamVehicles}

InitJam ==
    /\ Fresh(LongRoad)
    /\ vehicles \in JamInputs
    /\ completed_vehicles = <<>>
    /\ Unseeded

\* a caller evaluates calculate_traffic_jam_length()
CallJamLength ==
    /\ call.method = "none"
    /\ call' = [method |-> "calculate_traffic_jam_length",
                value |-> calculate_traffic_jam_length(vehicles)]
    /\ UNCHANGED <<configVars, engineVars, runVars, seedVars, other>>

NextJam == CallJamLength

SpecJam == InitJam /\ [][NextJam]_vars

(***************************************************************************)
(* calculate_bus_efficiency on its own: an engine, with or without a       *)
(* priority lane, that has completed up to MaxCompleted vehicles on a road *)
(* one free-flow step long.  A vehicle that was never held up completes    *)
(* in the step it entered (travel time 0); one held at the signal          *)
(* completes one or more steps later.                                      *)
(***************************************************************************)
ShortRoad ==
    [params |-> [BaseParams EXCEPT !.road_length = 100, !.privileged_percentage = 50,
                                   !.traffic_light_cycle = 80],
     infra |-> [BaseInfra EXCEPT !.num_lanes = 1, !.traffic_light_positions = <<50>>]]

ShortRoadBusLane == [ShortRoad EXCEPT !.infra.has_bus_lane = TRUE]

CompletedVehicle(i) ==
    [id : {i}, vehicle_type : {"regular", "privileged"}, entry_time : {0},
     current_position : {100, 185}, speed : {500}, lane : {0},
     will_turn : {FALSE}, turn_position : {None}, waiting_time : {0},
     travel_time : {0, 10, 40}, tt_writes : {1}]

EfficiencyInputs ==
    UNION {{cs \in [1..n -> UNION {CompletedVehicle(i) : i \in 1..n}] :
              \A i \in 1..n : cs[i].id = i} : n \in 0..MaxCompleted}

InitEfficiency ==
    /\ \E sc \in {ShortRoad, ShortRoadBusLane} : Fresh(sc)
    /\ vehicles = <<>>
    /\ completed_vehicles \in EfficiencyInputs
    /\ Unseeded

\* a caller evaluates calculate_bus_efficiency()
CallBusEfficiency ==
    /\ call.method = "none"
    /\ call' = [method |-> "calculate_bus_efficiency",
                value |-> calculate_bus_efficiency(completed_vehicles)]
    /\ UNCHANGED <<configVars, engineVars, runVars, seedVars, other>>

NextEfficiency == CallBusEfficiency

SpecEfficiency == InitEfficiency /\ [][NextEfficiency]_vars

(***************************************************************************)
(* Two runs with the same seed, one after the other in one process, as     *)
(* main() and the test drivers make them: seed the generators, construct   *)
(* the engine, run_simulation().                                           *)
(***************************************************************************)
SeededRun ==
    [params |-> [BaseParams EXCEPT !.privileged_percentage = 50, !.lane_capacity = 3,
                                   !.turning_percentage_range = <<0, 50>>,
                                   !.simulation_duration = 100],
     infra |-> [BaseInfra EXCEPT !.num_lanes = 1, !.traffic_light_positions = <<126>>]]

InitSeeded ==
    /\ Fresh(SeededRun)
    /\ vehicles = <<>>
    /\ completed_vehicles = <<>>
    /\ seed \in Seeds
    /\ rng = random_seed([np |-> 0, py |-> 0])
    /\ trace = <<>>
    /\ first_run = [done |-> FALSE]

\* an iteration of run_simulation whose draws come from the seeded generators
SeededRunIterate ==
    LET s == seeded_step_draws(Engine, seed, rng)
    IN /\ RunIterateWith(s.draws)
       /\ rng' = s.generators
       /\ trace' = Append(trace, step_phases(Engine, s.draws))
       /\ UNCHANGED <<seed, first_run>>

\* the caller keeps what the first run went through, seeds the generators
\* with the same seed and constructs a new engine with layout infra
RerunWith(infra) ==
    /\ pc = "returned"
    /\ ~first_run.done
    /\ first_run' = [done |-> TRUE, trace |-> trace, result |-> result,
                     save_data |-> save_data]
    /\ rng' = random_seed(rng)
    /\ trace' = <<>>
    /\ num_lanes' = infra.num_lanes
    /\ has_bus_lane' = infra.has_bus_lane
    /\ traffic_lights' = setup_infrastructure(infra.traffic_light_positions,
                                              infra.green_ratio, infra.cycle_duration)
    /\ current_time' = 0
    /\ vehicles' = <<>>
    /\ completed_vehicles' = <<>>
    /\ vehicle_queue' = <<>>
    /\ simulation_data' = <<>>
    /\ vehicle_details' = <<>>
    /\ next_vehicle_id' = 1
    /\ swallowed' = 0
    /\ step_calls' = 0
    /\ pc' = "idle"
    /\ steps' = 0
    /\ step_idx' = 0
    /\ result' = [returned |-> FALSE]
    /\ save_data' = FALSE
    /\ files' = {}      \* the second run exports under a name of its own
    /\ export_idx' = 0
    /\ infrastructure_config' = <<infra>>
    /\ UNCHANGED <<params, config, raised, callVars, seed, other>>

\* the second run has the parameters and the layout of the first
Rerun == RerunWith(SeededRun.infra)

NextSeeded == RunBegin \/ SeededRunIterate \/ SaveBegin \/ WriteTable \/ RunReturn \/ Rerun

SpecSeeded == InitSeeded /\ [][NextSeeded]_vars

(***************************************************************************)
(* test_equivalence: the same parameters (priority-category vehicles only, *)
(* no diversion) and the same seed, first on one regular lane without a    *)
(* priority lane, then on a priority lane without a regular lane.  The     *)
(* per-lane nominal capacity is below, or equal to, the capacity the       *)
(* engine derives for the priority lane.                                   *)
(***************************************************************************)
RegularLaneLayout ==
    [BaseInfra EXCEPT !.num_lanes = 1, !.traffic_light_positions = <<150>>]

BusLaneLayout ==
    [BaseInfra EXCEPT !.num_lanes = 0, !.has_bus_lane = TRUE,
                      !.traffic_light_positions = <<150>>]

EquivalenceScenarios ==
    {[params |-> [BaseParams EXCEPT !.privileged_percentage = 100,
                                    !.lane_capacity = c,
                                    !.simulation_duration = 100],
      infra |-> RegularLaneLayout] : c \in {1, 3}}

InitEquivalence ==
    /\ \E sc \in EquivalenceScenarios : Fresh(sc)
    /\ vehicles = <<>>
    /\ completed_vehicles = <<>>
    /\ seed \in Seeds
    /\ rng = random_seed([np |-> 0, py |-> 0])
    /\ trace = <<>>
    /\ first_run = [done |-> FALSE]

\* the second run of the test: same seed, priority lane only
RerunBusLane == RerunWith(BusLaneLayout)

NextEquivalence ==
    RunBegin \/ SeededRunIterate \/ SaveBegin \/ WriteTable \/ RunReturn \/ RerunBusLane

SpecEquivalence == InitEquivalence /\ [][NextEquivalence]_vars

(***************************************************************************)
(* Two engine instances in one process.  The generators are the module-    *)
(* level ones of `random` and `np.random`: both instances draw from them.  *)
(* The caller seeds them once, constructs both engines with the same       *)
(* parameters and calls step() on either, in any order.                    *)
(***************************************************************************)
\* the engine state __init__ leaves for scenario sc
new_engine(sc) ==
    [current_time |-> 0, vehicles |-> <<>>, completed_vehicles |-> <<>>,
     vehicle_queue |-> <<>>, simulation_data |-> <<>>, vehicle_details |-> <<>>,
     next_vehicle_id |-> 1,
     traffic_lights |-> setup_infrastructure(sc.infra.traffic_light_positions,
                                             sc.infra.green_ratio, sc.infra.cycle_duration),
     swallowed |-> 0]

InitInterleaved ==
    /\ Fresh(SeededRun)
    /\ vehicles = <<>>
    /\ completed_vehicles = <<>>
    /\ seed \in Seeds
    /\ rng = random_seed([np |-> 0, py |-> 0])
    /\ trace = <<>>
    /\ first_run = [done |-> FALSE]

\* the second engine is constructed
ConstructOther ==
    /\ ~other.constructed
    /\ step_calls = 0
    /\ other' = [constructed |-> TRUE, engine |-> new_engine(SeededRun), step_calls |-> 0]
    /\ UNCHANGED <<configVars, engineVars, runVars, callVars, seedVars>>

\* step() on the first instance
InterleavedStep ==
    /\ other.constructed
    /\ step_calls < MaxInterleavedSteps
    /\ LET s == seeded_step_draws(Engine, seed, rng)
       IN /\ DoStep(s.draws)
          /\ rng' = s.generators
    /\ UNCHANGED <<configVars, runVars, callVars, seed, trace, first_run, other>>

\* step() on the second instance
InterleavedStepOther ==
    /\ other.constructed
    /\ other.step_calls < MaxInterleavedSteps
    /\ LET s == seeded_step_draws(other.engine, seed, rng)
       IN /\ other' = [other EXCEPT !.engine = step_phases(other.engine, s.draws),
                                    !.step_calls = @ + 1]
          /\ rng' = s.generators
    /\ UNCHANGED <<configVars, engineVars, runVars, callVars, seed, trace, first_run>>

NextInterleaved == ConstructOther \/ InterleavedStep \/ InterleavedStepOther

SpecInterleaved == InitInterleaved /\ [][NextInterleaved]_vars

(***************************************************************************)
(* The speed rule evaluated alone, on an engine in the middle of a run:    *)
(* the signals are in the phase they have at that time, the active         *)
(* vehicles are at positions vehicles reach, within the ceiling, and those *)
(* within the initial segment of a lane fit into it.                       *)
(***************************************************************************)
\* the signals after the updates of the steps at times 0, time_step, .., now
RECURSIVE light_at(_, _, _)
light_at(light, time_step, now) ==
    CHOOSE updated \in
        {update_light(before, now) :
           before \in {IF now = 0 THEN light
                       ELSE light_at(light, time_step, now - time_step)}} : TRUE

lights_at(lights, time_step, now) ==
    [i \in 1..Len(lights) |-> light_at(lights[i], time_step, now)]

\* the engine in a run at time `now`, its signals updated by the steps up to
\* time `updated`, up to its active and completed vehicles; the telemetry
\* and the count of step() calls start here
RunEngine(sc, now, updated) ==
    /\ config = "CUSTOM"
    /\ infrastructure_config = <<sc.infra>>
    /\ params = sc.params
    /\ num_lanes = sc.infra.num_lanes
    /\ has_bus_lane = sc.infra.has_bus_lane
    /\ traffic_lights = lights_at(setup_infrastructure(sc.infra.traffic_light_positions,
                                                       sc.infra.green_ratio,
                                                       sc.infra.cycle_duration),
                                  sc.params.time_step, updated)
    /\ current_time = now
    /\ vehicle_queue = <<>>
    /\ simulation_data = <<>>
    /\ vehicle_details = <<>>
    /\ next_vehicle_id = 1
    /\ swallowed = 0
    /\ step_calls = 0
    /\ pc = "idle"
    /\ steps = 0
    /\ step_idx = 0
    /\ raised = "none"
    /\ result = [returned |-> FALSE]
    /\ save_data = FALSE
    /\ files = {}
    /\ export_idx = 0
    /\ call = [method |-> "none"]
    /\ Unseeded

\* that engine as the only engine of the process
RunState(sc, now, updated) ==
    /\ RunEngine(sc, now, updated)
    /\ other = [constructed |-> FALSE]

\* the engine between the signal update and the motion update of the step
\* at time `now`
Midrun(sc, now) == RunState(sc, now, now)

\* the engine before the step at time `now`, after the step before it
BetweenSteps(sc, now) == RunState(sc, now, now - sc.params.time_step)

\* the fourth and the fifth step: the signals are red, then green
MotionTimes == {30, 40}

MotionPositions == {0, 100, 200}

\* one regular lane and a priority lane, signals at 100 and 200
SpeedRoad ==
    [params |-> [BaseParams EXCEPT !.privileged_percentage = 50, !.lane_capacity = 4],
     infra |-> [BaseInfra EXCEPT !.num_lanes = 1, !.has_bus_lane = TRUE,
                                 !.traffic_light_positions = <<100, 200>>]]

\* what can_enter_road_segment has ensured at every admission
fits_first_segment(vs, lights, lane) ==
    LET seg_end == first_segment_end(lights)
        InSeg(v) == v.lane = lane /\ v.current_position <= seg_end
        vehicles_in_first_segment == SelectSeq(vs, InSeg)
    IN SeqSum([i \in 1..Len(vehicles_in_first_segment) |->
                 get_vehicle_space(vehicles_in_first_segment[i])]) <= seg_end

SpeedVehicle(i) ==
    {v \in [id : {i}, vehicle_type : {"regular", "privileged"}, entry_time : {0},
            current_position : MotionPositions, speed : {0}, lane : {BUS_LANE, 0},
            will_turn : {FALSE}, turn_position : {None}, waiting_time : {0},
            travel_time : {0}, tt_writes : {0}] :
       v.vehicle_type = "privileged" <=> v.lane = BUS_LANE}

SpeedInputs ==
    UNION {{vs \in [1..n -> UNION {SpeedVehicle(i) : i \in 1..n}] :
              \A i \in 1..n : vs[i].id = i} : n \in 0..MaxSpeedVehicles}

InitSpeed ==
    /\ \E now \in MotionTimes : Midrun(SpeedRoad, now)
    /\ vehicles \in SpeedInputs
    /\ Len(vehicles) <= max_capacity
    /\ \A lane \in {BUS_LANE, 0} : fits_first_segment(vehicles, traffic_lights, lane)
    /\ completed_vehicles = <<>>

\* move_vehicles evaluates calculate_vehicle_speed(vehicle)
CallVehicleSpeed ==
    /\ call.method = "none"
    /\ \E i \in 1..Len(vehicles) :
         call' = [method |-> "calculate_vehicle_speed", vehicle |-> vehicles[i],
                  value |-> calculate_vehicle_speed(vehicles, traffic_lights, vehicles[i])]
    /\ UNCHANGED <<configVars, engineVars, runVars, seedVars, other>>

\* jagodno.py: _move_vehicles evaluates _calculate_vehicle_speed(vehicle)
CallJagodnoVehicleSpeed ==
    /\ call.method = "none"
    /\ \E i \in 1..Len(vehicles) :
         call' = [method |-> "_calculate_vehicle_speed", vehicle |-> vehicles[i],
                  value |-> jagodno_calculate_vehicle_speed(vehicles, traffic_lights,
                                                            vehicles[i])]
    /\ UNCHANGED <<configVars, engineVars, runVars, seedVars, other>>

NextSpeed == CallVehicleSpeed \/ CallJagodnoVehicleSpeed

SpecSpeed == InitSpeed /\ [][NextSpeed]_vars

(***************************************************************************)
(* Steps on roads so short that the derived capacity of the priority lane  *)
(* is one vehicle: 150 / 90 rounds down to 1.  A priority vehicle fits in  *)
(* the initial segment exactly.  On the first road the signals are green   *)
(* for 3 s of a cycle of 4 s.                                              *)
(***************************************************************************)
NarrowBusLane ==
    [params |-> [BaseParams EXCEPT !.road_length = 150, !.privileged_percentage = 50],
     infra |-> [BaseInfra EXCEPT !.num_lanes = 1, !.has_bus_lane = TRUE,
                                 !.traffic_light_positions = <<90, 140>>,
                                 !.green_ratio = 75, !.cycle_duration = 40]]

NarrowBusLaneTwoLanes ==
    [params |-> [BaseParams EXCEPT !.road_length = 150, !.privileged_percentage = 50],
     infra |-> [BaseInfra EXCEPT !.num_lanes = 2, !.has_bus_lane = TRUE,
                                 !.traffic_light_positions = <<90>>]]

BusLaneScenarios == {NarrowBusLane, NarrowBusLaneTwoLanes}

InitBusLane == \E sc \in BusLaneScenarios : Construct(sc)

NextBusLane == Step

SpecBusLane == InitBusLane /\ [][NextBusLane]_vars

(***************************************************************************)
(* Steps from the middle of a run on, on roads without further demand, so  *)
(* that a step is its signal update and its motion update: a short road on *)
(* which a diversion position lies within one step of the corridor end,    *)
(* and a road longer than the stopping distance, late enough for vehicles  *)
(* to be near its signal.                                                  *)
(***************************************************************************)
MotionRoad ==
    [params |-> [BaseParams EXCEPT !.traffic_intensity_range = <<0, 0>>,
                                   !.turning_percentage_range = <<0, 50>>,
                                   !.side_road_positions = <<150, 250>>,
                                   !.lane_capacity = 4],
     infra |-> [BaseInfra EXCEPT !.num_lanes = 1, !.traffic_light_positions = <<100, 200>>]]

LongMotionRoad ==
    [params |-> [BaseParams EXCEPT !.traffic_intensity_range = <<0, 0>>,
                                   !.turning_percentage_range = <<0, 50>>,
                                   !.road_length = 1000,
                                   !.side_road_positions = <<950>>,
                                   !.lane_capacity = 4],
     infra |-> [BaseInfra EXCEPT !.num_lanes = 1, !.traffic_light_positions = <<900>>]]

\* positions 180 and 181 are at and within the stopping distance of the
\* signal at 900, position 900 is level with it
MotionCases ==
    {[sc |-> MotionRoad, times |-> MotionTimes, positions |-> MotionPositions],
     [sc |-> LongMotionRoad, times |-> {90, 100}, positions |-> {180, 181, 800, 900}]}

\* an active vehicle: it has not reached its diversion position
MotionVehicle(i, c) ==
    {v \in [id : {i}, vehicle_type : {"regular"}, entry_time : {0},
            current_position : c.positions, speed : {0}, lane : {0},
            will_turn : BOOLEAN,
            turn_position : SeqRange(c.sc.params.side_road_positions) \cup {None},
            waiting_time : {0}, travel_time : {0}, tt_writes : {0}] :
       /\ v.will_turn <=> v.turn_position # None
       /\ v.will_turn => v.current_position < v.turn_position}

MotionInputs(c) ==
    UNION {{vs \in [1..n -> UNION {MotionVehicle(i, c) : i \in 1..n}] :
              \A i \in 1..n : vs[i].id = i} : n \in 0..MaxMovedVehicles}

InitMotion ==
    /\ \E c \in MotionCases :
         /\ \E now \in c.times : BetweenSteps(c.sc, now)
         /\ vehicles \in MotionInputs(c)
    /\ Len(vehicles) <= max_capacity
    /\ fits_first_segment(vehicles, traffic_lights, 0)
    /\ completed_vehicles = <<>>

NextMotion == Step

SpecMotion == InitMotion /\ [][NextMotion]_vars

(***************************************************************************)
(* A caller that keeps calling step(), from the middle of a run on, on     *)
(* roads without further demand: with signals green for half of a cycle of *)
(* 2 s, and green for 1 s of a cycle of 4 s.  The calls counted are enough *)
(* for every active vehicle to reach the corridor end.                     *)
(***************************************************************************)
LongRedRoad ==
    [MotionRoad EXCEPT !.infra.green_ratio = 25, !.infra.cycle_duration = 40]

LiveCases ==
    {[sc |-> MotionRoad, times |-> MotionTimes, positions |-> MotionPositions],
     [sc |-> LongRedRoad, times |-> MotionTimes, positions |-> MotionPositions]}

InitLive ==
    /\ \E c \in LiveCases :
         /\ \E now \in c.times : BetweenSteps(c.sc, now)
         /\ vehicles \in MotionInputs(c)
    /\ Len(vehicles) <= max_capacity
    /\ fits_first_segment(vehicles, traffic_lights, 0)
    /\ completed_vehicles = <<>>

\* the next step() call of the caller
LiveStep ==
    /\ pc = "idle"
    /\ step_calls < MaxLiveSteps
    /\ \E draws \in StepDraws : DoStep(draws)
    /\ UNCHANGED <<configVars, runVars, callVars, seedVars, other>>

NextLive == LiveStep

\* the caller makes a step() call: step() returns for every engine state, so
\* this is enabled exactly when LiveStep is, and within NextLive a step that
\* counts a call is a LiveStep step
StepCalled ==
    /\ pc = "idle"
    /\ step_calls < MaxLiveSteps
    /\ step_calls' = step_calls + 1

\* step() keeps being called
SpecLive == InitLive /\ [][NextLive]_vars /\ WF_step_calls(StepCalled)

(***************************************************************************)
(* Two engines in the middle of the same run that hold the same active     *)
(* vehicles, the second one in another list order: `for vehicle in         *)
(* self.vehicles` of move_vehicles processes them in list order.  There is *)
(* no further demand, so a step is its signal update and motion update.    *)
(***************************************************************************)
Orders(n) == {order \in [1..n -> 1..n] : \A i, j \in 1..n : order[i] = order[j] => i = j}

reordered(vs, order) == [i \in 1..Len(vs) |-> vs[order[i]]]

OrderCase == [sc |-> MotionRoad, times |-> MotionTimes, positions |-> MotionPositions]

InitOrder ==
    /\ \E now \in OrderCase.times :
         RunEngine(OrderCase.sc, now, now - OrderCase.sc.params.time_step)
    /\ vehicles \in MotionInputs(OrderCase)
    /\ Len(vehicles) <= max_capacity
    /\ fits_first_segment(vehicles, traffic_lights, 0)
    /\ completed_vehicles = <<>>
    /\ \E order \in Orders(Len(vehicles)) :
         other = [constructed |-> TRUE,
                  engine |-> [Engine EXCEPT !.vehicles = reordered(vehicles, order)],
                  step_calls |-> 0]

\* step() on the first engine
OrderStep ==
    /\ step_calls < MaxInterleavedSteps
    /\ \E draws \in StepDraws : DoStep(draws)
    /\ UNCHANGED <<configVars, runVars, callVars, seedVars, other>>

\* step() on the second engine
OrderStepOther ==
    /\ other.step_calls < MaxInterleavedSteps
    /\ \E draws \in StepDraws :
         other' = [other EXCEPT !.engine = step_phases(other.engine, draws),
                                !.step_calls = @ + 1]
    /\ UNCHANGED <<configVars, engineVars, runVars, callVars, seedVars>>

NextOrder == OrderStep \/ OrderStepOther

SpecOrder == InitOrder /\ [][NextOrder]_vars

(***************************************************************************)
(* Layout resolution.  A parameter dictionary is a record; passing it as   *)
(* **infra_params binds each of its keys to the parameter of that name.    *)
(***************************************************************************)
RoadConfiguration == {"A", "B", "CUSTOM"}

\* variant_configs.py: the layout dictionaries, green_ratio in percent
get_variant_a_parameters(p) ==
    [num_lanes |-> 3, has_bus_lane |-> FALSE, bus_lane_capacity |-> 0,
     traffic_light_positions |-> IF p.side_road_positions # <<>> THEN p.side_road_positions
                                 ELSE DEFAULT_SIDE_ROAD_POSITIONS,
     green_ratio |-> 60]

get_variant_b_parameters(p) ==
    [num_lanes |-> 2, has_bus_lane |-> TRUE, bus_lane_capacity |-> p.lane_capacity,
     traffic_light_positions |-> IF p.side_road_positions # <<>> THEN p.side_road_positions
                                 ELSE DEFAULT_SIDE_ROAD_POSITIONS,
     green_ratio |-> 60]

get_variant_c_parameters(p) ==
    [num_lanes |-> 3, has_bus_lane |-> TRUE, bus_lane_capacity |-> p.lane_capacity,
     traffic_light_positions |-> <<10800, 21600>>,      \* [1.5, 3.0] km
     green_ratio |-> 70]

get_variant_d_parameters(p) ==
    [num_lanes |-> 4, has_bus_lane |-> TRUE, bus_lane_capacity |-> p.lane_capacity,
     traffic_light_positions |-> <<5760, 12960, 20160, 27360>>,     \* [0.8, 1.8, 2.8, 3.8] km
     green_ratio |-> 65]

get_default_parameters(p) ==
    [num_lanes |-> 2, has_bus_lane |-> FALSE, bus_lane_capacity |-> 0,
     traffic_light_positions |-> IF p.side_road_positions # <<>> THEN p.side_road_positions
                                 ELSE DEFAULT_SIDE_ROAD_POSITIONS,
     green_ratio |-> 60]

\* get_infrastructure_parameters, as __init__ calls it
get_infrastructure_parameters(cfg, explicit) ==
    IF explicit # <<>>
    THEN [num_lanes |-> explicit[1].num_lanes,
          has_bus_lane |-> explicit[1].has_bus_lane,
          traffic_light_positions |-> explicit[1].traffic_light_positions,
          green_ratio |-> explicit[1].green_ratio,
          cycle_duration |-> explicit[1].cycle_duration]
    ELSE IF cfg = "A" THEN get_variant_a_parameters(params)
    ELSE IF cfg = "B" THEN get_variant_b_parameters(params)
    ELSE get_default_parameters(params)

\* the signature of setup_infrastructure: its parameters, and those without
\* a default value
setup_infrastructure_parameters ==
    {"num_lanes", "has_bus_lane", "traffic_light_positions", "green_ratio", "cycle_duration"}

setup_infrastructure_required == {"num_lanes", "has_bus_lane", "traffic_light_positions"}

\* whether a call with exactly these keyword arguments binds; if not, the
\* call raises TypeError before the body runs
binds_setup_infrastructure(keywords) ==
    /\ keywords \subseteq setup_infrastructure_parameters
    /\ setup_infrastructure_required \subseteq keywords

\* str.upper on the names used here
upper(s) ==
    CASE s = "a" -> "A" [] s = "b" -> "B" [] s = "c" -> "C" [] s = "d" -> "D"
      [] s = "e" -> "E" [] s = "custom" -> "CUSTOM" [] OTHER -> s

\* the layout dictionary the two description functions select
description_parameters(variant_name, p) ==
    IF upper(variant_name) = "A" THEN get_variant_a_parameters(p)
    ELSE IF upper(variant_name) = "B" THEN get_variant_b_parameters(p)
    ELSE IF upper(variant_name) = "C" THEN get_variant_c_parameters(p)
    ELSE IF upper(variant_name) = "D" THEN get_variant_d_parameters(p)
    ELSE get_default_parameters(p)

\* get_variant_config_description: the values the string is built of
get_variant_config_description(variant_name, p) ==
    LET infra_params == description_parameters(variant_name, p)
    IN [num_lanes |-> infra_params.num_lanes,
        has_bus_lane |-> infra_params.has_bus_lane,
        num_lights |-> Len(infra_params.traffic_light_positions),
        green_ratio |-> infra_params.green_ratio]

\* get_variant_short_description: "<n>P" or "<n>P+Bus"
get_variant_short_description(variant_name, p) ==
    LET infra_params == description_parameters(variant_name, p)
    IN [num_lanes |-> infra_params.num_lanes,
        has_bus_lane |-> infra_params.has_bus_lane]

VariantNames == {"A", "a", "B", "b", "C", "c", "D", "d", "E", "e", "CUSTOM", ""}

LayoutParams ==
    {[BaseParams EXCEPT !.side_road_positions = s, !.lane_capacity = c] :
        s \in {<<>>, <<150>>, <<100, 250>>}, c \in {1, 2}}

ExplicitLayouts == {BaseInfra, [BaseInfra EXCEPT !.has_bus_lane = TRUE, !.cycle_duration = 40]}

\* the process before TrafficSimulation is instantiated
InitLayout ==
    /\ params \in LayoutParams
    /\ config = "CUSTOM"
    /\ infrastructure_config = <<>>
    /\ num_lanes = None
    /\ has_bus_lane = FALSE
    /\ traffic_lights = <<>>
    /\ current_time = 0
    /\ vehicles = <<>>
    /\ completed_vehicles = <<>>
    /\ vehicle_queue = <<>>
    /\ simulation_data = <<>>
    /\ vehicle_details = <<>>
    /\ next_vehicle_id = 1
    /\ swallowed = 0
    /\ step_calls = 0
    /\ pc = "unconstructed"
    /\ steps = 0
    /\ step_idx = 0
    /\ raised = "none"
    /\ result = [returned |-> FALSE]
    /\ save_data = FALSE
    /\ files = {}
    /\ export_idx = 0
    /\ call = [method |-> "none"]
    /\ other = [constructed |-> FALSE]
    /\ Unseeded

\* TrafficSimulation.__init__(config, params, infrastructure_config)
ConstructEngine ==
    /\ pc = "unconstructed"
    /\ \E cfg \in RoadConfiguration,
          explicit \in {<<>>} \cup {<<layout>> : layout \in ExplicitLayouts} :
         LET infra_params == get_infrastructure_parameters(cfg, explicit)
         IN /\ config' = cfg
            /\ infrastructure_config' = explicit
            /\ IF binds_setup_infrastructure(DOMAIN infra_params)
               THEN /\ num_lanes' = infra_params.num_lanes
                    /\ has_bus_lane' = infra_params.has_bus_lane
                    /\ traffic_lights' =
                         setup_infrastructure(infra_params.traffic_light_positions,
                                              infra_params.green_ratio,
                                              IF "cycle_duration" \in DOMAIN infra_params
                                              THEN infra_params.cycle_duration ELSE None)
                    /\ pc' = "idle"
                    /\ UNCHANGED raised
               ELSE /\ raised' = "TypeError"
                    /\ pc' = "raised"
                    /\ UNCHANGED <<num_lanes, has_bus_lane, traffic_lights>>
    /\ UNCHANGED <<params, current_time, vehicles, completed_vehicles, vehicle_queue,
                   simulation_data, vehicle_details, next_vehicle_id, swallowed,
                   step_calls, steps, step_idx, result, save_data, files, export_idx,
                   callVars, seedVars, other>>

CallVariantConfigDescription ==
    /\ \E variant_name \in VariantNames :
         call' = [method |-> "get_variant_config_description",
                  variant_name |-> variant_name,
                  value |-> get_variant_config_description(variant_name, params)]
    /\ UNCHANGED <<configVars, engineVars, runVars, seedVars, other>>

CallVariantShortDescription ==
    /\ \E variant_name \in VariantNames :
         call' = [method |-> "get_variant_short_description",
                  variant_name |-> variant_name,
                  value |-> get_variant_short_description(variant_name, params)]
    /\ UNCHANGED <<configVars, engineVars, runVars, seedVars, other>>

NextLayout == ConstructEngine \/ CallVariantConfigDescription \/ CallVariantShortDescription

SpecLayout == InitLayout /\ [][NextLayout]_vars

(***************************************************************************)
(* Properties.  The helpers below restate the quantities the properties    *)
(* speak about from the state alone, without the engine's operators.       *)
(***************************************************************************)
Last(s) == s[Len(s)]

\* capacity ceiling: per-lane nominal capacity over the regular lanes, plus
\* the priority-lane capacity if a priority lane is present
Ceiling ==
    params.lane_capacity * num_lanes + (IF has_bus_lane THEN bus_lane_capacity ELSE 0)

Footprint(vehicle_type) ==
    IF vehicle_type = "privileged" THEN BUS_TOTAL_SPACE ELSE CAR_TOTAL_SPACE

\* length of the initial segment
SegmentLength ==
    IF traffic_lights = <<>> THEN params.road_length
    ELSE LET ps == {traffic_lights[i].position : i \in 1..Len(traffic_lights)}
         IN CHOOSE m \in ps : \A q \in ps : m <= q

\* space taken on `lane` within the initial segment by the vehicles of `active`
Occupied(active, lane) ==
    SeqSum([i \in 1..Len(active) |->
              IF active[i].lane = lane /\ active[i].current_position <= SegmentLength
              THEN Footprint(active[i].vehicle_type) ELSE 0])

Fits(active, lane, vehicle_type) ==
    Occupied(active, lane) + Footprint(vehicle_type) <= SegmentLength

\* the active collection at the moment the decision recorded by ev was taken
ActiveBefore(ev) ==
    IF ev.action \in {"entered", "entered_from_queue"}
    THEN SubSeq(ev.active, 1, Len(ev.active) - 1)
    ELSE ev.active

Events == SeqRange(vehicle_details)
Ids(s) == [i \in 1..Len(s) |-> s[i].id]
PhaseRank(action) ==
    CASE action = "entered_from_queue" -> 1
      [] action \in {"entered", "queued"} -> 2
      [] OTHER -> 3

\* C1: the telemetry entry appended by a step carries the time before the
\* clock advance and the signal phases, counts and congestion length that
\* result from that step's signal and motion updates; within one step the
\* queue releases precede the arrivals, which precede the completions, and a
\* vehicle left with speed 0 stands before a signal that is red after the
\* step's signal update.
C1_TelemetryAfterMotion ==
    /\ Len(simulation_data) = step_calls
    /\ simulation_data # <<>> =>
         LET t == Last(simulation_data) IN
         /\ t.timesteps = current_time - params.time_step
         /\ t.light_states = [i \in 1..Len(traffic_lights) |-> traffic_lights[i].current_phase]
         /\ t.vehicles_in_motion = Len(vehicles)
         /\ t.vehicles_in_queue = Len(vehicle_queue)
         /\ t.jam_lengths = calculate_traffic_jam_length(vehicles)
    /\ \A i, j \in 1..Len(vehicle_details) :
         i < j => /\ vehicle_details[i].timestamp <= vehicle_details[j].timestamp
                  /\ vehicle_details[i].timestamp = vehicle_details[j].timestamp
                       => PhaseRank(vehicle_details[i].action)
                            <= PhaseRank(vehicle_details[j].action)
    /\ \A i \in 1..Len(vehicles) :
         vehicles[i].speed = 0 =>
           \E k \in 1..Len(traffic_lights) :
              /\ traffic_lights[k].current_phase = "red"
              /\ traffic_lights[k].position > vehicles[i].current_position
              /\ traffic_lights[k].position - vehicles[i].current_position
                   < TRAFFIC_LIGHT_STOPPING_DISTANCE

C1_Witness ==
    /\ simulation_data # <<>>
    /\ Last(simulation_data).jam_lengths > 0
    /\ Last(simulation_data).vehicles_in_queue > 0
    /\ "red" \in SeqRange(Last(simulation_data).light_states)
    /\ completed_vehicles # <<>>

\* C2: the number of active vehicles never exceeds the capacity ceiling, at
\* the end of a step and at every admission inside it, and an arrival
\* generated while the active count equals the ceiling is enqueued.
C2_CapacityCeiling ==
    /\ Len(vehicles) <= Ceiling
    /\ \A ev \in Events :
         /\ Len(ev.active) <= Ceiling
         /\ ev.action = "entered" => Len(ActiveBefore(ev)) < Ceiling
    /\ Cardinality({i \in 1..Len(vehicle_details) :
                      vehicle_details[i].action \in {"entered", "queued"}})
         = next_vehicle_id - 1

C2_Witness ==
    \E ev \in Events : ev.action = "queued" /\ Len(ev.active) = Ceiling /\ Ceiling > 0

\* C3: a vehicle generated while the active count is below the ceiling is
\* admitted iff the footprints of the active vehicles of its lane within the
\* initial segment plus its own footprint do not exceed the segment length,
\* and is enqueued otherwise.
C3_AdmissionIffFits ==
    \A ev \in Events :
       (ev.action \in {"entered", "queued"} /\ Len(ActiveBefore(ev)) < Ceiling)
         => (ev.action = "entered" <=> Fits(ActiveBefore(ev), ev.lane, ev.vehicle_type))

C3_Witness ==
    /\ \E ev \in Events : /\ ev.action = "queued"
                          /\ Len(ev.active) < Ceiling
                          /\ ev.vehicle_type = "privileged"
    /\ \E ev \in Events : /\ ev.action = "entered"
                          /\ Occupied(ActiveBefore(ev), ev.lane) > 0
                          /\ Occupied(ActiveBefore(ev), ev.lane) + Footprint(ev.vehicle_type)
                               = SegmentLength

\* a queued vehicle could be admitted next to the active collection `active`
Admissible(active, vehicle) ==
    Len(active) < Ceiling /\ Fits(active, vehicle.lane, vehicle.vehicle_type)

\* the events a step appends to the log
NewEvents == SubSeq(vehicle_details', Len(vehicle_details) + 1, Len(vehicle_details'))

EventIds(evs, actions) ==
    LET Sel(ev) == ev.action \in actions
        sel == SelectSeq(evs, Sel)
    IN [i \in 1..Len(sel) |-> sel[i].vehicle_id]

\* C4: the vehicles a step releases from the queue are a prefix of the queue,
\* in queue order; the release stops at the first vehicle that cannot be
\* admitted, so nothing behind it is released; the vehicles left keep their
\* order and the step's new arrivals are appended behind them.
C4_QueuePrefixReleased ==
    [][step_calls' = step_calls + 1 =>
         LET rel == EventIds(NewEvents, {"entered_from_queue"})
             k == Len(rel)
         IN /\ k <= Len(vehicle_queue)
            /\ rel = Ids(SubSeq(vehicle_queue, 1, k))
            /\ Ids(vehicle_queue') = Ids(SubSeq(vehicle_queue, k + 1, Len(vehicle_queue)))
                                       \o EventIds(NewEvents, {"queued"})
            /\ k < Len(vehicle_queue) =>
                 ~Admissible(vehicles \o SubSeq(vehicle_queue, 1, k), vehicle_queue[k + 1])
    ]_vars

\* a head that the last queue release left blocked, with a vehicle behind it
\* whose own lane has room
C4_Witness ==
    /\ Len(vehicle_queue) >= 2
    /\ ~Admissible(vehicles, vehicle_queue[1])
    /\ \E j \in 2..Len(vehicle_queue) :
         /\ Admissible(vehicles, vehicle_queue[j])
         /\ vehicle_queue[j].lane # vehicle_queue[1].lane
    /\ \E ev \in Events : /\ ev.action = "queued"
                          /\ ev.vehicle_id = vehicle_queue[1].id
                          /\ ev.timestamp < current_time - params.time_step
    /\ step_calls < MaxSteps

\* C5: active, queued and completed vehicles are pairwise disjoint, ids are
\* unique and are exactly 1 .. next_vehicle_id - 1, the number of ids handed
\* out equals |active| + |queued| + |completed|, and the completed list only
\* grows.
C5_Partition ==
    LET all == vehicles \o vehicle_queue \o completed_vehicles
    IN /\ Len(all) = next_vehicle_id - 1
       /\ \A i, j \in 1..Len(all) : i # j => all[i].id # all[j].id
       /\ {all[i].id : i \in 1..Len(all)} = 1..(next_vehicle_id - 1)

\* C5 (whole claim): the partition holds in every state and no step shrinks
\* or rewrites the completed list or takes back an id.
C5_Conservation ==
    /\ []C5_Partition
    /\ [][/\ Len(completed_vehicles') >= Len(completed_vehicles)
          /\ SubSeq(completed_vehicles', 1, Len(completed_vehicles)) = completed_vehicles
          /\ next_vehicle_id' >= next_vehicle_id]_vars

C5_Witness ==
    /\ vehicles # <<>>
    /\ vehicle_queue # <<>>
    /\ Len(completed_vehicles) >= 2

\* the time of the first event of vehicle id among the given actions
EventTime(id, actions) ==
    LET i == CHOOSE k \in 1..Len(vehicle_details) :
                /\ vehicle_details[k].vehicle_id = id
                /\ vehicle_details[k].action \in actions
    IN vehicle_details[i].timestamp

\* C6: travel_time is assigned exactly once for a completed vehicle, in the
\* step in which it completes; it is non-negative and equals the completion
\* time minus the time the vehicle entered the road; it is never assigned for
\* an active or queued vehicle.
C6_TravelTimeOnce ==
    /\ \A i \in 1..Len(completed_vehicles) :
         LET v == completed_vehicles[i] IN
         /\ v.tt_writes = 1
         /\ v.travel_time >= 0
         /\ Cardinality({k \in 1..Len(vehicle_details) :
                           /\ vehicle_details[k].vehicle_id = v.id
                           /\ vehicle_details[k].action \in {"turned", "exited"}}) = 1
         /\ v.travel_time = EventTime(v.id, {"turned", "exited"})
                            - EventTime(v.id, {"entered", "entered_from_queue"})
         /\ v.travel_time = EventTime(v.id, {"turned", "exited"}) - v.entry_time
    /\ \A i \in 1..Len(vehicles) : vehicles[i].tt_writes = 0 /\ vehicles[i].travel_time = 0
    /\ \A i \in 1..Len(vehicle_queue) :
         vehicle_queue[i].tt_writes = 0 /\ vehicle_queue[i].travel_time = 0

C6_Witness ==
    /\ \E i \in 1..Len(completed_vehicles) :
         /\ completed_vehicles[i].travel_time > 0
         /\ \E ev \in Events : /\ ev.vehicle_id = completed_vehicles[i].id
                               /\ ev.action = "entered_from_queue"
    /\ vehicles # <<>> \/ vehicle_queue # <<>>

\* C7: in a layout with zero regular lanes and no priority lane, a failed
\* vehicle generation raises a configuration error to the caller of step().
C7_NoLaneErrorReachesCaller ==
    (num_lanes = 0 /\ ~has_bus_lane /\ swallowed > 0) => raised = "ValueError"

\* C8: in a layout with zero regular lanes and a priority lane, the first
\* generation attempt that needs a regular lane aborts the run: the error
\* reaches the caller and generation is not attempted again.
C8_BusLaneOnlyAborts ==
    (num_lanes = 0 /\ has_bus_lane) =>
        /\ swallowed <= 1
        /\ swallowed = 1 => raised = "ValueError"

C10_ZeroDemand ==
    (params.traffic_intensity_range = <<0, 0>>) =>
        /\ vehicle_details = <<>>
        /\ vehicles = <<>>
        /\ vehicle_queue = <<>>
        /\ completed_vehicles = <<>>
        /\ next_vehicle_id = 1
        /\ \A i \in 1..Len(simulation_data) :
             /\ simulation_data[i].jam_lengths = 0
             /\ simulation_data[i].vehicles_in_motion = 0
             /\ simulation_data[i].vehicles_in_queue = 0

C10_Witness ==
    /\ params.traffic_intensity_range = <<0, 0>>
    /\ Len(simulation_data) >= 3
    /\ "red" \in SeqRange(Last(simulation_data).light_states)


(***************************************************************************)
(* Congestion length restated without the scan: two slow vehicles belong   *)
(* to the same group when every slow vehicle between them (the rear one    *)
(* included) has another slow vehicle strictly ahead of it at less than    *)
(* the jam-gap threshold.                                                  *)
(***************************************************************************)
SlowSet(vs) == {i \in 1..Len(vs) : vs[i].speed < SLOW_TRAFFIC_THRESHOLD}

Linked(vs, i, j) ==
    LET lo == Min2(vs[i].current_position, vs[j].current_position)
        hi == Max2(vs[i].current_position, vs[j].current_position)
    IN \A k \in SlowSet(vs) :
          (lo <= vs[k].current_position /\ vs[k].current_position < hi)
          => \E m \in SlowSet(vs) :
                /\ vs[m].current_position > vs[k].current_position
                /\ vs[m].current_position - vs[k].current_position < JAM_THRESHOLD_DISTANCE

GroupLength(vs, i) ==
    SeqSum([j \in 1..Len(vs) |->
              IF j \in SlowSet(vs) /\ Linked(vs, i, j)
              THEN Footprint(vs[j].vehicle_type) ELSE 0])

CongestionLength(vs) ==
    IF SlowSet(vs) = {} THEN 0
    ELSE LET ls == {GroupLength(vs, i) : i \in SlowSet(vs)}
         IN CHOOSE m \in ls : \A l \in ls : l <= m

\* C11: the congestion length returned is the largest total footprint over
\* the maximal groups of slow active vehicles whose consecutive gaps are below
\* the jam-gap threshold: 0 with no slow vehicle, one footprint for a lone
\* slow vehicle, and the larger footprint (not the sum) for two slow vehicles
\* farther apart than the threshold.
C11_CongestionLength ==
    call.method = "calculate_traffic_jam_length" =>
      LET slow == SlowSet(vehicles) IN
      /\ call.value = CongestionLength(vehicles)
      /\ slow = {} => call.value = 0
      /\ \A i \in slow : slow = {i} => call.value = Footprint(vehicles[i].vehicle_type)
      /\ \A i, j \in slow :
            (/\ slow = {i, j}
             /\ vehicles[j].current_position - vehicles[i].current_position
                  > JAM_THRESHOLD_DISTANCE)
            => call.value = Max2(Footprint(vehicles[i].vehicle_type),
                                 Footprint(vehicles[j].vehicle_type))

\* two slow vehicles of different categories farther apart than the threshold,
\* with a faster vehicle between them, have been measured
C11_Witness ==
    /\ call.method = "calculate_traffic_jam_length"
    /\ Cardinality(SlowSet(vehicles)) = 2
    /\ Len(vehicles) = 3
    /\ \E i, j \in SlowSet(vehicles) :
          /\ vehicles[j].current_position - vehicles[i].current_position
               > JAM_THRESHOLD_DISTANCE
          /\ vehicles[i].vehicle_type # vehicles[j].vehicle_type
          /\ call.value = BUS_TOTAL_SPACE

\* C12: the priority-lane efficiency returned lies between 0 and 100 percent,
\* and is exactly 0 when the layout has no priority lane and when no
\* priority-category or no regular vehicle has completed.
C12_EfficiencyRange ==
    call.method = "calculate_bus_efficiency" =>
      /\ 0 <= call.value
      /\ call.value <= 100 * EFFICIENCY_SCALE
      /\ ~has_bus_lane => call.value = 0
      /\ (\A i \in 1..Len(completed_vehicles) :
             completed_vehicles[i].vehicle_type # "privileged") => call.value = 0
      /\ (\A i \in 1..Len(completed_vehicles) :
             completed_vehicles[i].vehicle_type # "regular") => call.value = 0

\* the summary record without its wall-clock field
Statistics(summary) ==
    [f \in DOMAIN summary \ {"simulation_time"} |-> summary[f]]

\* the second run has so far gone through the states the first run went through
SameStateSequence ==
    /\ Len(trace) <= Len(first_run.trace)
    /\ \A i \in 1..Len(trace) : trace[i] = first_run.trace[i]
    /\ pc = "returned" => Len(trace) = Len(first_run.trace)

\* C13 as stated: two runs with identical parameters, layout and seed go
\* through identical state sequences (per-vehicle event sequences included)
\* and return identical summary records.
C13_SameSeedSameSummary ==
    first_run.done =>
      /\ SameStateSequence
      /\ pc = "returned" => result = first_run.result

\* C13 amended: two runs with identical parameters, layout and seed go
\* through identical state sequences (per-vehicle event sequences included)
\* and return summary records that agree in every field but the wall-clock
\* execution time.
C13_SameSeedSameRun ==
    first_run.done =>
      /\ SameStateSequence
      /\ pc = "returned" => Statistics(result) = Statistics(first_run.result)

\* the second run has returned after a run in which vehicles of both
\* categories entered, one diverted and one completed
C13_Witness ==
    /\ first_run.done
    /\ pc = "returned"
    /\ Len(trace) = 10
    /\ completed_vehicles # <<>>
    /\ \E ev \in Events : ev.vehicle_type = "privileged"
    /\ \E ev \in Events : ev.vehicle_type = "regular"
    /\ \E ev \in Events : ev.action = "turned"

\* the state an instance is in after k step() calls when it is the only one
\* drawing from the seeded generators
RECURSIVE run_alone(_, _, _)
run_alone(e, generators, k) ==
    IF k = 0 THEN e
    ELSE LET s == seeded_step_draws(e, seed, generators)
         IN run_alone(step_phases(e, s.draws), s.generators, k - 1)

\* C14: each of two engine instances whose step() calls are interleaved is,
\* after every step, in the state it reaches by the same number of steps when
\* run alone with the same seed: no step of one instance changes what a step
\* of the other reads, the source of random draws included.
C14_InterleavingInvisible ==
    other.constructed =>
      /\ Engine = run_alone(new_engine(SeededRun), random_seed(rng), step_calls)
      /\ other.engine = run_alone(new_engine(SeededRun), random_seed(rng), other.step_calls)

\* what a run shows of an engine state: which vehicle was admitted, queued,
\* released and completed at which time, who is active, queued and completed,
\* and the travel times
Observed(e) ==
    [events |-> [k \in 1..Len(e.vehicle_details) |->
                   [vehicle_id |-> e.vehicle_details[k].vehicle_id,
                    timestamp |-> e.vehicle_details[k].timestamp,
                    action |-> e.vehicle_details[k].action,
                    travel_time |-> e.vehicle_details[k].travel_time]],
     active |-> Ids(e.vehicles),
     queued |-> Ids(e.vehicle_queue),
     completed |-> [k \in 1..Len(e.completed_vehicles) |->
                      [id |-> e.completed_vehicles[k].id,
                       travel_time |-> e.completed_vehicles[k].travel_time]]]

\* C15: with priority-category vehicles only, no diversion and the same seed,
\* the run on a priority lane alone admits, queues and completes the same
\* vehicles at the same steps, with the same travel times, as the run on one
\* regular lane alone.
C15_LayoutsEquivalent ==
    first_run.done =>
      /\ Len(trace) <= Len(first_run.trace)
      /\ \A i \in 1..Len(trace) : Observed(trace[i]) = Observed(first_run.trace[i])

\* the export of the run ended with an error
ExportFailed == pc = "raised" /\ raised = "OSError"

\* C16: the export after a run is all-or-nothing: if a table write failed,
\* none of the output tables of that export exists; if the export went
\* through, all of its output tables exist.
C16_ExportAllOrNothing ==
    /\ ExportFailed => files = {}
    /\ (pc = "returned" /\ save_data) => files = SeqRange(export_tables)

\* C17: when the export of a completed run fails, the caller gets the failure
\* and still gets the in-memory summary record of the run.
C17_SummaryReturnedOnExportFailure ==
    ExportFailed => result.returned

\* the names the description functions know, and the members the engine knows
KnownVariantNames == {"A", "a", "B", "b", "C", "c", "D", "d"}

KnownConfigurations == {"A", "B"}

ConfiguredSignalPositions ==
    IF params.side_road_positions # <<>> THEN params.side_road_positions
    ELSE DEFAULT_SIDE_ROAD_POSITIONS

\* the engine has the default layout
EngineHasDefaultLayout ==
    /\ num_lanes = 2
    /\ ~has_bus_lane
    /\ [i \in 1..Len(traffic_lights) |-> traffic_lights[i].position] = ConfiguredSignalPositions
    /\ \A i \in 1..Len(traffic_lights) :
         traffic_lights[i].green_duration * 100 = 60 * traffic_lights[i].cycle_duration

\* the description functions describe the default layout for an unknown name
DescriptionsUseDefault ==
    /\ (call.method = "get_variant_config_description"
          /\ call.variant_name \notin KnownVariantNames)
         => call.value = [num_lanes |-> 2, has_bus_lane |-> FALSE,
                          num_lights |-> Len(ConfiguredSignalPositions),
                          green_ratio |-> 60]
    /\ (call.method = "get_variant_short_description"
          /\ call.variant_name \notin KnownVariantNames)
         => call.value = [num_lanes |-> 2, has_bus_lane |-> FALSE]

\* C18: layout resolution never fails on an unknown variant: an engine
\* constructed without an explicit layout for a variant other than the known
\* ones is constructed and has the default layout (2 regular lanes, no
\* priority lane, signals at the configured side-road positions, green ratio
\* 0.6), and the description functions describe the default layout for every
\* name other than the known ones.
C18_UnknownVariantUsesDefault ==
    /\ (pc # "unconstructed" /\ infrastructure_config = <<>>
          /\ config \notin KnownConfigurations)
         => (raised = "none" /\ EngineHasDefaultLayout)
    /\ DescriptionsUseDefault

\* signal i shows another phase after the step than before it
PhaseChanged(i) == traffic_lights'[i].current_phase # traffic_lights[i].current_phase

\* the time signal i has spent in its phase when the step updates the signals
TimeInPhase(i) == current_time - traffic_lights[i].phase_start_time

\* the nominal duration of the phase signal i is in
PhaseDuration(i) ==
    IF traffic_lights[i].current_phase = "green" THEN traffic_lights[i].green_duration
    ELSE traffic_lights[i].cycle_duration - traffic_lights[i].green_duration

MovedInStep ==
    {v \in SeqRange(vehicles') \cup SeqRange(completed_vehicles') :
       \A c \in SeqRange(completed_vehicles) : c.id # v.id}

\* position and waiting time with which the vehicle of this id comes to the
\* step's motion update: those it had before the step if it was active, those
\* of a vehicle that has not moved yet if it was queued or has just arrived
BeforeMotion(id) ==
    IF \E w \in SeqRange(vehicles) : w.id = id
    THEN LET w == CHOOSE w \in SeqRange(vehicles) : w.id = id
         IN [current_position |-> w.current_position, waiting_time |-> w.waiting_time]
    ELSE [current_position |-> 0, waiting_time |-> 0]

\* a signal that is red in the step's motion update lies ahead of the
\* position by less than the stopping distance
FacesRedSignal(position) ==
    \E i \in 1..Len(traffic_lights') :
       /\ traffic_lights'[i].current_phase = "red"
       /\ traffic_lights'[i].position > position
       /\ traffic_lights'[i].position - position < TRAFFIC_LIGHT_STOPPING_DISTANCE

\* C20: in every motion update, a vehicle less than the stopping distance
\* before a red signal gets speed 0, keeps its position and its waiting time
\* grows by exactly one time increment; the waiting time of a vehicle changes
\* in no other case (not for a vehicle that moves, not for a queued one).
C20_StoppedAtRedWaits ==
    [][/\ \A v \in MovedInStep :
            LET before == BeforeMotion(v.id)
            IN IF FacesRedSignal(before.current_position)
               THEN /\ v.speed = 0
                    /\ v.current_position = before.current_position
                    /\ v.waiting_time = before.waiting_time + params.time_step
               ELSE /\ v.speed > 0
                    /\ v.waiting_time = before.waiting_time
       /\ \A q \in SeqRange(vehicle_queue') : q.waiting_time = 0]_vars

\* an active vehicle that has moved stands before a red signal and has
\* waited, and a vehicle that has waited before is moving again
C20_Witness ==
    /\ \E i \in 1..Len(vehicles) :
         /\ vehicles[i].speed = 0
         /\ vehicles[i].current_position > 0
         /\ vehicles[i].waiting_time > 0
    /\ \E i \in 1..Len(vehicles) :
         /\ vehicles[i].speed > 0
         /\ vehicles[i].waiting_time > 0

\* a red signal lies ahead of the position by less than the stopping distance
BeforeRedSignal(position) ==
    \E i \in 1..Len(traffic_lights) :
       /\ traffic_lights[i].current_phase = "red"
       /\ traffic_lights[i].position > position
       /\ traffic_lights[i].position - position < TRAFFIC_LIGHT_STOPPING_DISTANCE

\* the number of active vehicles ahead of v on its lane within the
\* detection distance
AheadCount(v) ==
    Cardinality({j \in 1..Len(vehicles) :
                   /\ vehicles[j].id # v.id
                   /\ vehicles[j].lane = v.lane
                   /\ vehicles[j].current_position > v.current_position
                   /\ vehicles[j].current_position - v.current_position
                        < DETECTION_DISTANCE})

\* the density-based speed with n vehicles ahead, the speed of a non-stopped
\* regular-lane vehicle
DensitySpeed(n) ==
    (BASE_VEHICLE_SPEED * Max2(MIN_DENSITY_FACTOR, 100 - n * DENSITY_REDUCTION_RATE)) \div 100

SpeedEvaluated(methods) ==
    call.method \in methods /\ ~BeforeRedSignal(call.vehicle.current_position)

\* a non-stopped priority-lane vehicle is faster than the density-based
\* speed for its number of vehicles ahead unless it has the free-flow speed,
\* which it never exceeds; a non-stopped regular-lane vehicle has the
\* density-based speed
PriorityLaneFaster(methods) ==
    SpeedEvaluated(methods) =>
       IF call.vehicle.lane = BUS_LANE
       THEN /\ call.value <= BASE_VEHICLE_SPEED
            /\ call.value < BASE_VEHICLE_SPEED
                 => call.value > DensitySpeed(AheadCount(call.vehicle))
       ELSE call.value = DensitySpeed(AheadCount(call.vehicle))

\* C21: the speed of a non-stopped vehicle on the priority lane is its
\* density-based speed times a fixed multiplier, capped at the free-flow
\* speed: with the same number of vehicles ahead it is faster than a
\* regular-lane vehicle whenever the cap is not reached, and never exceeds
\* the free-flow speed.
C21_PriorityLaneMultiplier ==
    PriorityLaneFaster({"calculate_vehicle_speed", "_calculate_vehicle_speed"})

\* the single-file edition alone has the property
JagodnoPriorityLaneMultiplier == PriorityLaneFaster({"_calculate_vehicle_speed"})

\* the vehicle is flagged to divert and at or past its diversion position
AtDiversion(v) == v.will_turn /\ v.current_position >= v.turn_position

AtCorridorEnd(v) == v.current_position >= params.road_length

\* the step has completed the vehicle with this event: it is no longer
\* active, it is among the completed vehicles, and the event the step has
\* logged for it is this one
CompletedInStepAs(v, action) ==
    /\ \A i \in 1..Len(vehicles') : vehicles'[i].id # v.id
    /\ \E i \in (Len(completed_vehicles) + 1)..Len(completed_vehicles') :
          completed_vehicles'[i] = v
    /\ \E k \in (Len(vehicle_details) + 1)..Len(vehicle_details') :
          /\ vehicle_details'[k].vehicle_id = v.id
          /\ vehicle_details'[k].action = action
          /\ vehicle_details'[k].position = v.current_position
    /\ \A k \in (Len(vehicle_details) + 1)..Len(vehicle_details') :
          (vehicle_details'[k].vehicle_id = v.id
             /\ vehicle_details'[k].action \in {"turned", "exited"})
            => vehicle_details'[k].action = action

DerivedCapacity == Max2(1, params.road_length \div BUS_TOTAL_SPACE)

\* the vehicles of a collection that are on the priority lane
OnPriorityLane(vs) == {i \in 1..Len(vs) : vs[i].lane = BUS_LANE}

RegularLanes == 0..(num_lanes - 1)

\* C23: every generated regular-category vehicle is assigned a lane index
\* in 0..num_lanes-1, never the priority lane; a generated priority-category
\* vehicle is assigned the priority lane if and only if the layout has one
\* and the number of active vehicles on it at that moment is below the
\* derived capacity, and otherwise a lane index in 0..num_lanes-1.
C23_LaneAssignment ==
    \A ev \in Events :
       ev.action \in {"entered", "queued"} =>
          IF ev.vehicle_type = "regular" THEN ev.lane \in RegularLanes
          ELSE /\ ev.lane = BUS_LANE
                    <=> (has_bus_lane
                         /\ Cardinality(OnPriorityLane(ActiveBefore(ev))) < DerivedCapacity)
               /\ ev.lane # BUS_LANE => ev.lane \in RegularLanes

\* priority vehicles were generated with the priority lane below and at
\* its capacity, and a regular vehicle was generated
C23_Witness ==
    /\ \E ev \in Events : /\ ev.action \in {"entered", "queued"}
                          /\ ev.vehicle_type = "privileged" /\ ev.lane = BUS_LANE
    /\ \E ev \in Events : /\ ev.action \in {"entered", "queued"}
                          /\ ev.vehicle_type = "privileged" /\ ev.lane \in RegularLanes
                          /\ has_bus_lane
    /\ \E ev \in Events : /\ ev.action \in {"entered", "queued"}
                          /\ ev.vehicle_type = "regular"

\* C27: after any sequence of step() calls the number of active vehicles on
\* the priority lane is at most the derived priority-lane capacity, also
\* after priority-lane vehicles enqueued earlier have been released.
C27_PriorityLaneWithinCapacity ==
    has_bus_lane => Cardinality(OnPriorityLane(vehicles)) <= DerivedCapacity

\* the completed vehicles of a category, and those with a realized speed
CompletedOf(category) ==
    SelectSeq(completed_vehicles, LAMBDA v : v.vehicle_type = category)

TimedOf(category) == SelectSeq(CompletedOf(category), LAMBDA v : v.travel_time > 0)

TravelTimeSum(s) == SeqSum([i \in 1..Len(s) |-> s[i].travel_time])

RealizedSpeedSum(s) == SeqSum([i \in 1..Len(s) |-> realized_speed(s[i])])

\* max(0, (regular mean - priority mean) / regular mean x 100) of the travel
\* times, 0 when the regular mean is 0
TimeEfficiency ==
    LET bus == CompletedOf("privileged")
        regular == CompletedOf("regular")
    IN IF TravelTimeSum(regular) = 0 THEN 0
       ELSE Max2(0, ((TravelTimeSum(regular) * Len(bus) - TravelTimeSum(bus) * Len(regular))
                     * 100 * EFFICIENCY_SCALE)
                    \div (TravelTimeSum(regular) * Len(bus)))

\* max(0, (priority mean - regular mean) / regular mean x 100) of the
\* realized speeds, where both means exist
SpeedEfficiency ==
    LET bus == TimedOf("privileged")
        regular == TimedOf("regular")
    IN IF RealizedSpeedSum(regular) = 0 THEN 0
       ELSE Max2(0, ((RealizedSpeedSum(bus) * Len(regular) - RealizedSpeedSum(regular) * Len(bus))
                     * 100 * EFFICIENCY_SCALE)
                    \div (RealizedSpeedSum(regular) * Len(bus)))

BothSpeedMeansExist == TimedOf("privileged") # <<>> /\ TimedOf("regular") # <<>>

\* C25: with a priority lane and completions of both categories, the score is
\* 0.7 x time-efficiency + 0.3 x speed-efficiency if the mean realized speeds
\* of both categories exist, and otherwise the time-efficiency itself, without
\* the 0.7 weight.
C25_EfficiencyWeights ==
    (/\ call.method = "calculate_bus_efficiency"
     /\ has_bus_lane
     /\ CompletedOf("privileged") # <<>>
     /\ CompletedOf("regular") # <<>>)
        => call.value = IF BothSpeedMeansExist
                        THEN (TimeEfficiency * 70 + SpeedEfficiency * 30) \div 100
                        ELSE TimeEfficiency

\* every vehicle the engine holds: queued, active or completed
HeldVehicles ==
    SeqRange(vehicle_queue) \cup SeqRange(vehicles) \cup SeqRange(completed_vehicles)

\* what a vehicle is given at its creation
Identity(v) ==
    [id |-> v.id, vehicle_type |-> v.vehicle_type, lane |-> v.lane,
     will_turn |-> v.will_turn, turn_position |-> v.turn_position]

ReleasedInStep ==
    {w \in SeqRange(vehicles)' : \E v \in SeqRange(vehicle_queue) : v.id = w.id}

\* C26: no step changes a vehicle's id, category, assigned lane, diversion
\* flag or diversion position: every vehicle held before a step is held after
\* it with the same values, so a vehicle released from the queue is on the
\* lane assigned at its generation; queued vehicles are at position 0.
C26_IdentityFrame ==
    [][/\ \A v \in HeldVehicles :
            /\ \E w \in HeldVehicles' : w.id = v.id
            /\ \A w \in HeldVehicles' : w.id = v.id => Identity(w) = Identity(v)
       /\ \A q \in SeqRange(vehicle_queue)' : q.current_position = 0]_vars

\* a vehicle released from the queue onto the priority lane has moved on it
\* while another vehicle waits in the queue
C26_Witness ==
    /\ vehicle_queue # <<>>
    /\ \E i \in 1..Len(vehicle_details) : \E v \in SeqRange(vehicles) :
         /\ vehicle_details[i].action = "entered_from_queue"
         /\ vehicle_details[i].vehicle_id = v.id
         /\ v.lane = BUS_LANE
         /\ v.current_position > 0

\* the vehicle queued by event i of the log is still waiting at event j
WaitingAt(i, j) ==
    /\ vehicle_details[i].action = "queued"
    /\ \A k \in (i + 1)..(j - 1) :
         ~(/\ vehicle_details[k].action = "entered_from_queue"
           /\ vehicle_details[k].vehicle_id = vehicle_details[i].vehicle_id)

\* C28: a new arrival is admitted directly only when the queue is empty: at
\* no direct admission in the event log is an earlier queued vehicle still
\* waiting, so vehicles enter the road in the order of their generation.
C28_NoDirectEntryPastQueue ==
    \A j \in 1..Len(vehicle_details) :
       vehicle_details[j].action = "entered"
          => \A i \in 1..(j - 1) : ~WaitingAt(i, j)

\* the signals that are red in the step's motion update
RedInMotionUpdate ==
    {i \in 1..Len(traffic_lights') : traffic_lights'[i].current_phase = "red"}

\* C29: with the default time increment of 1 second no vehicle runs a red
\* light: in no step does a vehicle's position go from before the position of
\* a signal to at or past it while that signal is red in the step's motion
\* update.
C29_NoRedLightRun ==
    [][params.time_step = TIME_SCALE =>
         \A v \in MovedInStep : \A i \in RedInMotionUpdate :
            BeforeMotion(v.id).current_position < traffic_lights'[i].position
               => v.current_position < traffic_lights'[i].position]_vars

\* after a motion update a vehicle stands before a red signal that it would
\* have reached in that step at free-flow speed
C29_Witness ==
    /\ params.time_step = TIME_SCALE
    /\ simulation_data # <<>>
    /\ \E v \in SeqRange(vehicles) : \E i \in 1..Len(traffic_lights) :
         /\ traffic_lights[i].current_phase = "red"
         /\ v.speed = 0
         /\ v.waiting_time > 0
         /\ v.current_position < traffic_lights[i].position
         /\ v.current_position + step_distance(BASE_VEHICLE_SPEED, params.time_step)
              >= traffic_lights[i].position

IsActive(id) == \E v \in SeqRange(vehicles) : v.id = id

IsCompleted(id) ==
    /\ ~IsActive(id)
    /\ \E i \in 1..Len(completed_vehicles) : \E ev \in Events :
         /\ completed_vehicles[i].id = id
         /\ ev.vehicle_id = id
         /\ ev.action \in {"turned", "exited"}

\* C30: if step() keeps being called, with a positive cycle duration and a
\* green ratio between 0 and 1, every vehicle admitted to the road
\* eventually completes, as diverted or as exited.
C30_EveryVehicleCompletes ==
    \A id \in 1..MaxMovedVehicles : IsActive(id) ~> IsCompleted(id)

\* a vehicle that has waited at a red signal has completed and the road is
\* empty
C30_Witness ==
    /\ vehicles = <<>>
    /\ \E i \in 1..Len(completed_vehicles) :
         /\ completed_vehicles[i].waiting_time > 0
         /\ IsCompleted(completed_vehicles[i].id)
    /\ \A i \in 1..Len(traffic_lights) :
         /\ traffic_lights[i].cycle_duration > 0
         /\ traffic_lights[i].green_duration > 0
         /\ traffic_lights[i].green_duration < traffic_lights[i].cycle_duration

\* what a motion update produced for each vehicle: the active vehicles with
\* their speeds and positions, and the completed ones
MotionOutcome(e) ==
    [active |-> SeqRange(e.vehicles), completed |-> SeqRange(e.completed_vehicles)]

\* C24: the motion update is independent per active vehicle: two engines that
\* hold the same active vehicles in different list orders have, after the
\* same number of steps, the same speed, position and completion for every
\* vehicle.
C24_OrderIndependent ==
    (step_calls > 0 /\ other.step_calls = step_calls)
        => MotionOutcome(Engine) = MotionOutcome(other.engine)
====
